---- MODULE Spec2Model ----
(***************************************************************************)
(* Two-way ranging examples of the DWM3000 port.                           *)
(*                                                                         *)
(* Two transceivers, "I" (initiator side) and "R" (responder side), each   *)
(* running one example application (app_main) of the repository.  The      *)
(* variable app selects which example(s) run:                              *)
(*   pair      ds_twr_initiator_sts on I and ds_twr_responder_sts on R,     *)
(*             talking over one radio channel;                             *)
(*   init_sts  ds_twr_initiator_sts alone, receptions chosen by the        *)
(*             environment;                                                *)
(*   resp_sts  ds_twr_responder_sts alone;                                 *)
(*   init      ds_twr_initiator alone;                                     *)
(*   sdc_init  ds_twr_sts_sdc_initiator alone;                             *)
(*   sdc_resp  ds_twr_sts_sdc_responder alone;                             *)
(*   ss_init   ss_twr_initiator_sts_no_data alone;                         *)
(*   pdoa      simple_rx_pdoa alone.                                       *)
(*                                                                         *)
(* The frame sequence number is not part of the exchange machines: every   *)
(* receiver clears byte ALL_MSG_SN_IDX before comparing the prefix.        *)
(***************************************************************************)
EXTENDS Integers, Sequences, FiniteSets, TLC

(* ------------------------------ bounds -------------------------------- *)
\* number of ranging exchanges of the responder loop (scaled down)
RANGE_COUNT == 3
\* the 32-bit STS counter, scaled down: counters wrap modulo CtrMod
CtrMod == 8
\* number of frames simple_tx_aes sends before the model stops it
MaxAesFrames == 2
\* iterations of ack_data_tx explored past 0 for each of its counters
MaxAckFrames == 3

(* ----------------------------- constants ------------------------------ *)
DWT_SUCCESS == 0
DWT_ERROR == -1
RX_BUF_LEN_STS == 24
RX_BUF_LEN_INIT == 20
RX_BUF_LEN_SDC_INIT == 20
RX_BUF_LEN_SDC_RESP == 24
RX_BUF_LEN_SS == 24
RESP_RX_TIMEOUT_UUS == 300
FINAL_RX_TIMEOUT_UUS == 300
\* low 32 bits of cp_iv, the value every counter reload writes (scaled to 0)
STS_IV0 == 0

Dev == {"I", "R"}
Peer(d) == IF d = "I" THEN "R" ELSE "I"
Apps == {"pair", "init_sts", "resp_sts", "init", "sdc_init", "sdc_resp",
         "ss_init", "pdoa",
         "dec_init", "dec_resp", "twr", "twr_env", "ss_calc",
         "aes", "aes_fn", "ack_tx", "sleep"}

(* status register events, and the masks the examples use *)
RXFCG == {"RXFCG"}
RXFR == {"RXFR"}
TXFRS == {"TXFRS"}
ALL_RX_TO == {"RXFTO"}
ALL_RX_ERR == {"RXFCE", "RXSTO"}
ALL_ND_RX_ERR == {"RXSTO"}
ALL_RX_GOOD == {"RXFR", "RXFCG"}
ALL_EVENTS == RXFCG \cup RXFR \cup TXFRS \cup ALL_RX_TO \cup ALL_RX_ERR

(* frames: kind is the 10-byte common prefix (sequence number cleared),    *)
(* len the frame length of RX_FINFO, sts the STS counter it was sent with, *)
(* data the bytes after the prefix that carry information                  *)
NoFrame == [kind |-> "none", len |-> 0, sts |-> 0, src |-> "-", data |-> << >>]
Msg(k, l, bytes) == [kind |-> k, len |-> l, sts |-> 0, src |-> "-", data |-> bytes]
\* ds_twr_initiator_sts / ds_twr_responder_sts: the arrays hold the prefix
\* and room for the 2-byte checksum; the final also three 4-byte timestamps
tx_poll_msg == Msg("poll", 12, << >>)
tx_resp_msg == Msg("resp", 12, << >>)
tx_final_msg == Msg("final", 24, <<"poll_tx_ts", "resp_rx_ts", "final_tx_ts">>)
\* ds_twr_initiator / STS-SDC examples: length is sizeof + FCS_LEN
tx_poll_msg_sdc == Msg("poll", 12, << >>)
tx_resp_msg_sdc == Msg("resp", 15, << >>)
tx_final_msg_sdc == Msg("final", 24, <<"poll_tx_ts", "resp_rx_ts", "final_tx_ts">>)
\* ss_twr_initiator_sts_no_data: the SP3 poll packet has no payload
sp3_poll_packet == Msg("sp3", 0, << >>)

VARIABLES
    app,            \* which example(s) run
    stable,         \* pair: the channel has become loss-free and TX on time
    air,            \* pair: the frame in flight
    SYS_STATUS,     \* [Dev -> SUBSET events]: status register of the chip
    rx_on,          \* [Dev -> BOOLEAN]: receiver enabled
    rx_to,          \* [Dev -> Nat]: programmed RX frame timeout, 0 = off
    hw_rx,          \* [Dev -> frame]: RX buffer / RX_FINFO of the chip
    sts_qual,       \* [Dev -> Int]: what dwt_readstsquality returns
    sts_ctr,        \* [Dev -> 0..CtrMod-1]: running STS counter of the chip
    sts_key_loads,  \* [Dev -> 0..2]: key + full IV configurations (saturating)
    txq,            \* [Dev -> frame]: transmission started, not yet sent
    resp_exp,       \* [Dev -> BOOLEAN]: DWT_RESPONSE_EXPECTED of that TX
    pc,             \* [Dev -> label]: position in app_main
    status_reg,     \* [Dev -> SUBSET events]
    goodSts,        \* [Dev -> Int]
    rx_buffer,      \* [Dev -> kind]: prefix held in rx_buffer
    ret,            \* [Dev -> Int]: last result of dwt_starttx
    outcome,        \* [Dev -> label]: branch taken by the last reception
    iter_ev,        \* [Dev -> SUBSET label]: what this loop iteration did
    sts_op,         \* [Dev -> label]: STS load done at this iteration start
    firstLoopFlag,
    messageFlag,
    loopCount,
    distance_array_index,
    range_ok,
    pdoa_val,
    last_pdoa_val,
    cpc,            \* position of the frame check / the timestamp arithmetic
    rx_frame,       \* bytes 0..9 of the received frame in the chip's buffer
    rx_prefix,      \* bytes 0..9 of rx_buffer
    decoded,        \* what the received frame was taken for
    hw_ts,          \* [Dev -> [tx, rx]]: TX and RX timestamp registers
    dx_time,        \* [Dev -> uint32]: dwt_setdelayedtrxtime value
    dly,            \* turnaround delays of responder and initiator, in dtu
    sep,            \* true separations of the captures of the exchange
    ini,            \* timestamps held by the initiator
    rsp,            \* timestamps and estimator values held by the responder
    tx_ts_fields,   \* bytes 10..21 of tx_final_msg
    rx_ts_fields,   \* bytes 10..21 of rx_buffer
    ss,             \* timestamps and estimator values of ss_twr_initiator
    errors,         \* [Dev -> [entry -> Nat]]: errors[] since the loop top
    apc,            \* [Dev -> label]: position in the AES examples
    PN,             \* simple_tx_aes: the 48-bit packet number
    header,         \* simple_tx_aes: the plain-text MAC header
    nonce,          \* simple_tx_aes: nonce[12]
    tx_status,      \* simple_tx_aes: status returned by dwt_do_aes
    tx_outcome,     \* simple_tx_aes: what the loop did with that status
    aes_air,        \* the encrypted frame in flight
    aes_hw,         \* receiving chip: status events, RX_FINFO, RX buffer
    aes_args,       \* arguments of the call of rx_aes_802_15_8
    aes_job,        \* the receiver's dwt_aes_job_t
    payload,        \* the receiver's payload buffer
    aes_status,     \* rx_aes_802_15_8: status returned by dwt_do_aes
    aes_results,    \* value returned by rx_aes_802_15_8
    aes_trace,      \* driver calls made by the last call of rx_aes_802_15_8
    ack_pc,         \* ack_data_tx: position in app_main
    ack_hw,         \* ack_data_tx: status events, receiver, RX_FINFO, RX buffer
    tx_msg_sn,      \* ack_data_tx: tx_msg[FRAME_SN_IDX]
    ack_rx_buffer,  \* ack_data_tx: rx_buffer
    frame_len,      \* ack_data_tx: frame_len
    tx_frame_acked, \* ack_data_tx: tx_frame_acked
    tx_frame_nb,    \* ack_data_tx: frames sent (uint32_t)
    tx_frame_ack_nb,   \* ack_data_tx: frames acknowledged (uint32_t)
    tx_frame_retry_nb, \* ack_data_tx: retransmissions (uint32_t)
    sl_pc,          \* tx_timed_sleep: position in app_main
    sleeping,       \* tx_timed_sleep: the volatile flag
    sl_dev,         \* tx_timed_sleep: chip state, TXFRS, pending SPI-ready interrupt
    blink_sn        \* tx_timed_sleep: tx_msg[BLINK_FRAME_SN_IDX]

envvars == <<app, stable, air>>
hwvars == <<SYS_STATUS, rx_on, rx_to, hw_rx, sts_qual, sts_ctr, sts_key_loads,
            txq, resp_exp>>
swvars == <<pc, status_reg, goodSts, rx_buffer, ret, outcome, iter_ev, sts_op>>
appvars == <<firstLoopFlag, messageFlag, loopCount, distance_array_index,
             range_ok, pdoa_val, last_pdoa_val>>
mathvars == <<cpc, rx_frame, rx_prefix, decoded, hw_ts, dx_time, dly, sep, ini, rsp,
              tx_ts_fields, rx_ts_fields, ss>>
aesvars == <<apc, PN, header, nonce, tx_status, tx_outcome, aes_air, aes_hw,
             aes_args, aes_job, payload, aes_status, aes_results, aes_trace>>
ackvars == <<ack_pc, ack_hw, tx_msg_sn, ack_rx_buffer, frame_len, tx_frame_acked,
             tx_frame_nb, tx_frame_ack_nb, tx_frame_retry_nb>>
sleepvars == <<sl_pc, sleeping, sl_dev, blink_sn>>
vars == <<envvars, hwvars, swvars, appvars, mathvars, errors, aesvars, ackvars,
          sleepvars>>

(* which example runs on which device *)
ProgOf(a, d) ==
    IF d = "I"
    THEN CASE a \in {"pair", "init_sts"} -> "ds_twr_initiator_sts"
           [] a = "init" -> "ds_twr_initiator"
           [] a = "sdc_init" -> "ds_twr_sts_sdc_initiator"
           [] a = "ss_init" -> "ss_twr_initiator_sts_no_data"
           [] OTHER -> "none"
    ELSE CASE a \in {"pair", "resp_sts"} -> "ds_twr_responder_sts"
           [] a = "sdc_resp" -> "ds_twr_sts_sdc_responder"
           [] a = "pdoa" -> "simple_rx_pdoa"
           [] OTHER -> "none"

Prog(d) == ProgOf(app, d)

Upd(f, d, v) == [f EXCEPT ![d] = v]

(* ------------------ device time: 40-bit and 32-bit values -------------- *)
(* A device time is held in 16-bit limbs, so that the widths of the code    *)
(* (uint64_t, the 40-bit counter, uint32_t) are kept: lo = bits 0..15,      *)
(* hi = bits 16..31, top = bits 32 and up.                                  *)
W16 == 65536
U64(top, hi, lo) == [top |-> top, hi |-> hi, lo |-> lo]
U32(hi, lo) == [hi |-> hi, lo |-> lo]

\* (uint32_t)x
Low32(x) == U32(x.hi, x.lo)

\* x + n in uint64_t, for 0 <= n < 2^31
Add64(x, n) ==
    LET l == x.lo + (n % W16)
        h == x.hi + (n \div W16) + (l \div W16)
    IN  U64(x.top + (h \div W16), h % W16, l % W16)

\* the 40-bit system time counter of the chip: x + n modulo 2^40
Add40(x, n) == LET s == Add64(x, n) IN U64(s.top % 256, s.hi, s.lo)

\* (uint32_t)(x >> 8)
Shr8To32(x) ==
    U32((x.top % 256) * 256 + (x.hi \div 256), (x.hi % 256) * 256 + (x.lo \div 256))

\* v & 0xFFFFFFFEUL
ClearBit0(v) == U32(v.hi, v.lo - (v.lo % 2))

\* ((uint64_t)v) << 8
Shl8(v) == U64(v.hi \div 256, (v.hi % 256) * 256 + (v.lo \div 256), (v.lo % 256) * 256)

\* slip: the borrow of the low half is lost
Sub32_NoBorrow(a, b) == U32((a.hi - b.hi + W16) % W16, (a.lo - b.lo + W16) % W16)

\* a - b in uint32_t
Sub32(a, b) ==
    LET l == a.lo - b.lo
        borrow == IF l < 0 THEN 1 ELSE 0
    IN  U32((a.hi - b.hi - borrow + 2 * W16) % W16, (l + W16) % W16)

\* (double)v of a uint32_t below 2^31; every such value is exact in a double
Dbl(v) == v.hi * W16 + v.lo

\* (int32_t)v
Int32(v) == IF v.hi < 32768 THEN v.hi * W16 + v.lo ELSE (v.hi - W16) * W16 + v.lo

\* antenna delay added to the programmed time of a delayed transmission
TX_ANT_DLY == 16385

(* the timestamp fields of a frame: 4 bytes each, least significant first *)
FINAL_MSG_TS_LEN == 4
\* final_msg_set_ts(): ts_field[i] = (uint8_t)ts; ts >>= 8; for 4 bytes
final_msg_set_ts(ts) ==
    <<ts.lo % 256, ts.lo \div 256, ts.hi % 256, ts.hi \div 256>>

\* final_msg_get_ts() / resp_msg_get_ts(): *ts += ts_field[i] << (i * 8)
final_msg_get_ts(f) == U32(f[3] + f[4] * 256, f[1] + f[2] * 256)

(* the first ALL_MSG_COMMON_LEN bytes of the templates the frames are      *)
(* compared with; byte ALL_MSG_SN_IDX is the sequence number               *)
ALL_MSG_COMMON_LEN == 10
ALL_MSG_SN_IDX == 2
rx_poll_msg == <<65, 136, 0, 202, 222, 87, 65, 86, 69, 224>>
rx_resp_msg == <<65, 136, 0, 202, 222, 86, 69, 87, 65, 225>>
rx_final_msg == <<65, 136, 0, 202, 222, 68, 69, 67, 65, 226>>

FINAL_MSG_POLL_TX_TS_IDX == 10
FINAL_MSG_RESP_RX_TS_IDX == 14
FINAL_MSG_FINAL_TX_TS_IDX == 18
\* the 4 bytes at index idx of a frame whose bytes from index 10 on are f
TsField(f, idx) == SubSeq(f, idx - 9, idx - 10 + FINAL_MSG_TS_LEN)

(* ------------- inputs of the frame check and of the arithmetic ---------- *)
DecodeApps == {"dec_init", "dec_resp"}
TwrApps == {"twr", "twr_env"}
MathApps == DecodeApps \cup TwrApps \cup {"ss_calc"}

Zero64 == U64(0, 0, 0)
Zero32 == U32(0, 0)

\* received prefixes: a template, its sequence number set by the sender,
\* and at most one other byte replaced
ByteSamples == {0, 1, 65, 255}
SeqNumbers == {0, 7}
DecodeFrames ==
    {[[t EXCEPT ![ALL_MSG_SN_IDX + 1] = sn] EXCEPT ![i] = b] :
        t \in {rx_poll_msg, rx_resp_msg, rx_final_msg},
        sn \in SeqNumbers, i \in 1..ALL_MSG_COMMON_LEN, b \in ByteSamples}
       \cup {[t EXCEPT ![ALL_MSG_SN_IDX + 1] = sn] :
               t \in {rx_poll_msg, rx_resp_msg, rx_final_msg}, sn \in SeqNumbers}

\* 40-bit timestamps: mid-range, and shortly before the counter passes
\* 2^32 and 2^40, so that it wraps between two captures of an exchange
Stamps == {U64(3, 100, 1000),
           U64(0, 65535, 65000), U64(0, 65535, 20000),
           U64(255, 65535, 65000), U64(255, 65535, 20000)}
\* turnaround delays in device time units (at least one 512-unit step, so
\* that the programmed time is not in the past)
Delays == {700, 5000, 20000}
\* one-way flight times in device time units
Flights == {0, 3}

\* frames and captures chosen by the environment of the responder
EnvBases == {U32(0, 40), U32(65535, 65530)}
EnvDeltas == {0, 1, 5, 100, 1001}

\* ss_twr: 32-bit timestamps and true round-trip / reply times
SsStamps == {U32(0, 1000), U32(0, 1050), U32(65535, 65500)}
SsDeltas == {250, 360, 16777000, 16777217}

NoSep == [Ra |-> 0, Rb |-> 0, Da |-> 0, Db |-> 0, tof |-> 0]
NoIni == [poll_tx_ts |-> Zero64, resp_rx_ts |-> Zero64,
          final_tx_time |-> Zero32, final_tx_ts |-> Zero64]
NoRsp == [poll_rx_ts |-> Zero64, resp_tx_time |-> Zero32, resp_tx_ts |-> Zero64,
          final_rx_ts |-> Zero64,
          poll_tx_ts |-> Zero32, resp_rx_ts |-> Zero32, final_tx_ts |-> Zero32,
          Ra |-> 0, Rb |-> 0, Da |-> 0, Db |-> 0, tof_dtu |-> 0]
NoSs == [poll_tx_ts |-> Zero32, resp_rx_ts |-> Zero32,
         poll_rx_ts |-> Zero32, resp_tx_ts |-> Zero32,
         clockoffset |-> 0, rtd_init |-> 0, rtd_resp |-> 0, tof_x2 |-> 0]
NoFields == [i \in 1..12 |-> 0]
NoStamps == [d \in Dev |-> [tx |-> Zero64, rx |-> Zero64]]
NoPrefix == [i \in 1..ALL_MSG_COMMON_LEN |-> 0]
As64(v) == U64(0, v.hi, v.lo)

(* State of the frame check and of the arithmetic when the frame they work *)
(* on has been received: the chip holds the frame and the timestamps.      *)
MathInit ==
    /\ cpc = (CASE app \in DecodeApps -> "decode"
                [] app = "twr" -> "poll_rx"
                [] app = "twr_env" -> "final_rx"
                [] app = "ss_calc" -> "report_rx"
                [] OTHER -> "off")
    /\ rx_frame \in (IF app \in DecodeApps THEN DecodeFrames ELSE {NoPrefix})
    /\ rx_prefix = NoPrefix
    /\ decoded = "none"
    /\ dx_time = [d \in Dev |-> Zero32]
    /\ ini = NoIni
    /\ tx_ts_fields = NoFields
    /\ ss = NoSs
    /\ IF app = "twr"
       THEN \E tI \in Stamps, tR \in Stamps, D1 \in Delays, D2 \in Delays, f \in Flights :
              /\ hw_ts = [NoStamps EXCEPT !["I"].tx = tI, !["R"].rx = tR]
              /\ dly = [resp |-> D1, final |-> D2]
              /\ sep = [NoSep EXCEPT !.tof = f]
              /\ rsp = NoRsp
              /\ rx_ts_fields = NoFields
       ELSE IF app = "twr_env"
       THEN \E b \in EnvBases, c \in EnvBases,
               ra \in EnvDeltas, rb \in EnvDeltas, da \in EnvDeltas, db \in EnvDeltas :
              /\ hw_ts = [NoStamps EXCEPT
                            !["R"].tx = Add40(As64(b), db),
                            !["R"].rx = Add40(As64(b), db + rb)]
              /\ dly = [resp |-> 0, final |-> 0]
              /\ sep = [Ra |-> ra, Rb |-> rb, Da |-> da, Db |-> db, tof |-> 0]
              /\ rsp = [NoRsp EXCEPT !.poll_rx_ts = As64(b)]
              /\ rx_ts_fields = final_msg_set_ts(As64(c))
                                  \o final_msg_set_ts(Add64(As64(c), ra))
                                  \o final_msg_set_ts(Add64(As64(c), ra + da))
       ELSE IF app = "ss_calc"
       THEN \E a \in SsStamps, b \in SsStamps, ra \in SsDeltas, rb \in SsDeltas :
              /\ hw_ts = [NoStamps EXCEPT !["I"].tx = As64(a),
                                          !["I"].rx = Add40(As64(a), ra)]
              /\ dly = [resp |-> 0, final |-> 0]
              /\ sep = [NoSep EXCEPT !.Ra = ra, !.Rb = rb]
              /\ rsp = NoRsp
              /\ rx_ts_fields = final_msg_set_ts(As64(b))
                                  \o final_msg_set_ts(Add64(As64(b), rb))
                                  \o <<0, 0, 0, 0>>
       ELSE /\ hw_ts = NoStamps
            /\ dly = [resp |-> 0, final |-> 0]
            /\ sep = NoSep
            /\ rsp = NoRsp
            /\ rx_ts_fields = NoFields

(* ------------------------- AES frame security -------------------------- *)
(* simple_tx_aes ("I"), simple_rx_aes ("R") and rx_aes_802_15_8.  The      *)
(* application aes runs the two examples against each other; aes_fn is one *)
(* call of rx_aes_802_15_8 with arguments of the full width of its         *)
(* parameters.  The frame counters of the log messages are left out.       *)
AesApps == {"aes", "aes_fn"}

\* sizeof(mac_frame_802_15_8_format_t): fc[2], seq, dst_addr[6], src_addr[6], nonce[6]
HEADER_LEN == 21
FCS_LEN == 2
\* sizeof(payload) of simple_tx_aes and of simple_rx_aes
TX_PAYLOAD_LEN == 32
RX_PAYLOAD_SIZE == 128
\* mic_size = aes_config.mic * 2 + 2 with MIC_16
MIC_SIZE == 16
\* the error bits of the AES status register
AES_ERRORS == 14
RX_FINFO_RXFLEN_BIT_MASK == 1023

RECURSIVE BitAnd(_, _)
\* a & b for a, b >= 0
BitAnd(a, b) ==
    IF a = 0 \/ b = 0 THEN 0
    ELSE (a % 2) * (b % 2) + 2 * BitAnd(a \div 2, b \div 2)

\* conversion to int16_t of a value computed in size_t: the low 16 bits,
\* read as two's complement
ToInt16(x) == LET u == x % W16 IN IF u >= 32768 THEN u - W16 ELSE u

\* payload_len = frame_length - (sizeof(header) + aes_job->mic_size + FCS_LEN)
RxAesPayloadLen(fl, mic) == ToInt16(fl - (HEADER_LEN + mic + FCS_LEN))

\* slip: the lower limit is not tested
RxAesLenOk_NoLower(payload_len, payload_load_size) == payload_len < payload_load_size

\* if (payload_len >= 0 && payload_len < payload_load_size)
RxAesLenOk(payload_len, payload_load_size) ==
    payload_len >= 0 /\ payload_len < payload_load_size

\* slip: the error bits are not looked at
RxClassify_NoBits(status) ==
    IF status < 0 THEN "AES_RES_ERROR_LENGTH" ELSE "AES_RES_OK"

\* rx_aes_802_15_8: what the status of dwt_do_aes is returned as
RxClassify(status) ==
    IF status < 0 THEN "AES_RES_ERROR_LENGTH"
    ELSE IF BitAnd(status, AES_ERRORS) # 0 THEN "AES_RES_ERROR"
    ELSE "AES_RES_OK"

\* simple_rx_aes: what is logged for a result of rx_aes_802_15_8
RxLog(res) ==
    CASE res = "AES_RES_ERROR_LENGTH" -> "Length AES error"
      [] res = "AES_RES_ERROR" -> "ERROR AES"
      [] res = "AES_RES_ERROR_FRAME" -> "Error Frame"
      [] res = "AES_RES_OK" -> "AES TX OK"
      [] OTHER -> "none"

\* simple_tx_aes: what is logged for a status of dwt_do_aes
TxLog(status) ==
    IF status < 0 THEN "Length AES error"
    ELSE IF BitAnd(status, AES_ERRORS) # 0 THEN "ERROR AES"
    ELSE "AES TX OK"

\* nonce[0..5] = header.nonce[0..5] = (uint8_t)(PN >> 8 * i)
PnBytes(pn) ==
    <<pn.lo % 256, pn.lo \div 256, pn.hi % 256, pn.hi \div 256,
      pn.top % 256, (pn.top \div 256) % 256>>

\* PN = (PN + 1) % 0xFFFFFFFFFFFF, for PN below 0xFFFFFFFFFFFF
PnNext(pn) ==
    LET s == Add64(pn, 1)
    IN  IF s = U64(W16 - 1, W16 - 1, W16 - 1) THEN U64(0, 0, 0) ELSE s

\* slip: the address is placed in front of the packet number
RxNonce_Swapped(hdr) == hdr.src_addr \o hdr.nonce

\* memcpy(&nonce[0], &header.nonce[0], 6); memcpy(&nonce[6], &header.src_addr[0], 6)
RxNonce(hdr) == hdr.nonce \o hdr.src_addr

\* the header of simple_tx_aes, for a source address and a packet number
TxHeader(src, pn, seq) ==
    [fc |-> <<80, 64>>, seq |-> seq, dst_addr |-> <<10, 11, 12, 13, 14, 15>>,
     src_addr |-> src, nonce |-> PnBytes(pn)]

\* nonce[] of simple_tx_aes after the loop top
TxNonce(src, pn) == PnBytes(pn) \o src

TX_SRC_ADDR == <<1, 2, 3, 4, 5, 6>>
\* frame length written by dwt_writetxfctrl
TX_AES_FRAME_LEN == HEADER_LEN + TX_PAYLOAD_LEN + MIC_SIZE + FCS_LEN

(* inputs *)
\* values the AES core can return: negative, error bits, done, other bits
AesStatus == {-128, -1, 0, 1, 2, 8, 17, 127}
\* the values it returns to the two examples running against each other
AesStatusLoop == {-1, 0, 2}
\* start values of the packet number, up to the last value before it wraps
PnSamples == {U64(0, 0, 0), U64(0, 0, 255), U64(0, 65535, 65535),
              U64(65535, 65535, 65534)}
\* source addresses of received frames: the companion example and another sender
SrcAddrs == {TX_SRC_ADDR, <<255, 254, 0, 128, 7, 9>>}
\* uint16_t frame_length, uint8_t mic_size, uint16_t payload_load_size
FrameLengths == {0, 22, 23, 38, 39, 40, 71, 166, 167, 1023, 32790, 40000, 65535}
MicSizes == {0, 16, 255}
BufSizes == {0, 1, 128, 50000, 65535}
\* frame lengths of RX_FINFO
FinfoLens == {5, 39, 71, 167, 1023}

NoAesFrame == [len |-> 0, hdr |-> TxHeader(TX_SRC_ADDR, U64(0, 0, 0), 0),
               sent_nonce |-> << >>]
AesFrames == {[len |-> l, hdr |-> TxHeader(s, pn, 0), sent_nonce |-> TxNonce(s, pn)] :
                 l \in FinfoLens, s \in SrcAddrs, pn \in PnSamples}
\* frames of another sender received by simple_rx_aes
OtherAesFrames == {f \in AesFrames : f.hdr.src_addr # TX_SRC_ADDR
                                      /\ f.hdr.nonce = PnBytes(U64(0, 0, 255))}
NoAesHw == [status |-> {}, rx_on |-> FALSE, txq |-> NoAesFrame, rx |-> NoAesFrame]
\* aes_job before the first call: the caller has set the ports, the mode
\* and mic_size, the other fields are not set
NoAesJob == [nonce |-> "unset", header_len |-> "unset", payload_len |-> "unset",
             header |-> "unset", payload |-> "unset", mic_size |-> 0]
NoAesArgs == [frame_length |-> 0, payload_load_size |-> 0]

AesInit ==
    /\ apc = [d \in Dev |-> CASE app = "aes" -> "loop"
                              [] app = "aes_fn" /\ d = "R" -> "call"
                              [] OTHER -> "off"]
    /\ PN \in (IF app = "aes" THEN PnSamples ELSE {U64(0, 0, 0)})
    /\ header = TxHeader(TX_SRC_ADDR, U64(0, 0, 0), 0)
    /\ nonce = <<0, 0, 0, 0, 0, 0>> \o TX_SRC_ADDR
    /\ tx_status = 0
    /\ tx_outcome = "none"
    /\ aes_air = NoAesFrame
    /\ IF app = "aes_fn"
       THEN /\ \E f \in {g \in AesFrames : g.len = 71} :
                  aes_hw = [d \in Dev |-> IF d = "R"
                                          THEN [NoAesHw EXCEPT !.rx = f] ELSE NoAesHw]
            /\ aes_args \in [frame_length : FrameLengths, payload_load_size : BufSizes]
            /\ \E m \in MicSizes : aes_job = [NoAesJob EXCEPT !.mic_size = m]
       ELSE /\ aes_hw = [d \in Dev |-> NoAesHw]
            /\ aes_args = NoAesArgs
            /\ aes_job = [NoAesJob EXCEPT !.mic_size = MIC_SIZE]
    /\ payload = "zero"
    /\ aes_status = 0
    /\ aes_results = "none"
    /\ aes_trace = << >>

(* ----------------------------- ack_data_tx ----------------------------- *)
(* The counters tx_frame_nb, tx_frame_ack_nb and tx_frame_retry_nb, which   *)
(* the example only increments, are left out; status_reg is the value st   *)
(* of the step that ends the status wait.                                  *)
FRAME_FC_IDX == 0
FRAME_SN_IDX == 2
ACK_FC_0 == 2
ACK_FC_1 == 0
ACK_FRAME_LEN == 5
RX_RESP_TO_UUS == 2200

\* slip: the sequence number of the ACK is not compared
IsExpectedAck_AnySn(buf, sn) ==
    buf[FRAME_FC_IDX + 1] = ACK_FC_0 /\ buf[FRAME_FC_IDX + 2] = ACK_FC_1

\* rx_buffer[FRAME_FC_IDX] == ACK_FC_0 && rx_buffer[FRAME_FC_IDX + 1] == ACK_FC_1
\* && rx_buffer[FRAME_SN_IDX] == tx_msg[FRAME_SN_IDX]
IsExpectedAck(buf, sn) ==
    /\ buf[FRAME_FC_IDX + 1] = ACK_FC_0
    /\ buf[FRAME_FC_IDX + 2] = ACK_FC_1
    /\ buf[FRAME_SN_IDX + 1] = sn

\* frames the receiver can get while the frame with sequence number sn
\* awaits its ACK: the ACK, and frames that differ from it in the length,
\* in one byte of the frame control, or in the sequence number
AckRxFrames(sn) ==
    {[len |-> ACK_FRAME_LEN, bytes |-> <<ACK_FC_0, ACK_FC_1, sn, 0, 0>>],
     [len |-> ACK_FRAME_LEN + 1, bytes |-> <<ACK_FC_0, ACK_FC_1, sn, 0, 0>>],
     [len |-> ACK_FRAME_LEN, bytes |-> <<97, ACK_FC_1, sn, 0, 0>>],
     [len |-> ACK_FRAME_LEN, bytes |-> <<ACK_FC_0, 1, sn, 0, 0>>],
     [len |-> ACK_FRAME_LEN, bytes |-> <<ACK_FC_0, ACK_FC_1, (sn + 1) % 256, 0, 0>>]}

NoAckRx == [len |-> 0, bytes |-> <<0, 0, 0, 0, 0>>]

\* v + 1 in uint32_t
Inc32(v) == LET l == v.lo + 1 IN U32((v.hi + (l \div W16)) % W16, l % W16)

\* a + b in uint32_t
Add32(a, b) ==
    LET l == a.lo + b.lo IN U32((a.hi + b.hi + (l \div W16)) % W16, l % W16)

(* The counters and the sequence number at the top of the loop: 0 when     *)
(* app_main is entered.  The loop never ends, so the run is also picked up *)
(* at the top of a later iteration, where the 32-bit counters are about to *)
(* wrap: after 2^32 - 2 iterations that were all acknowledged, and after   *)
(* 2^32 - 1 iterations of which one was acknowledged.                      *)
AckLoopTops ==
    {[nb |-> U32(0, 0), ack |-> U32(0, 0), retry |-> U32(0, 0), sn |-> 0],
     [nb |-> U32(65535, 65534), ack |-> U32(65535, 65534),
      retry |-> U32(0, 0), sn |-> 254],
     [nb |-> U32(65535, 65535), ack |-> U32(0, 1),
      retry |-> U32(65535, 65534), sn |-> 1]}

AckInit ==
    /\ ack_pc = IF app = "ack_tx" THEN "loop" ELSE "off"
    /\ ack_hw = [status |-> {}, rx_on |-> FALSE, txq |-> << >>, rx |-> NoAckRx,
                 rx_to |-> IF app = "ack_tx" THEN RX_RESP_TO_UUS ELSE 0]
    /\ \E top \in IF app = "ack_tx" THEN AckLoopTops
                                    ELSE {t \in AckLoopTops : t.nb = U32(0, 0)} :
          /\ tx_msg_sn = top.sn
          /\ tx_frame_nb = top.nb
          /\ tx_frame_ack_nb = top.ack
          /\ tx_frame_retry_nb = top.retry
    /\ ack_rx_buffer = <<0, 0, 0, 0, 0>>
    /\ frame_len = 0
    /\ tx_frame_acked = 0

(* --------------------------- tx_timed_sleep --------------------------- *)
(* the chip: awake and idle, transmitting, or asleep; its TXFRS event; the *)
(* SPI-ready interrupt raised by a wake-up and not yet served              *)
NoSleepDev == [state |-> "idle", txfrs |-> FALSE, irq |-> FALSE]

SleepInit ==
    /\ sl_pc = IF app = "sleep" THEN "loop" ELSE "off"
    /\ sleeping = 0
    /\ sl_dev = NoSleepDev
    /\ blink_sn = 0

(* --------------------------- error counters ---------------------------- *)
(* errors[] is only ever incremented and never read by the examples; the   *)
(* model holds each entry relative to its value at the top of the current  *)
(* loop iteration.                                                         *)
ErrIdx == {"BAD_FRAME_ERR_IDX", "RTO_ERR_IDX", "PREAMBLE_COUNT_ERR_IDX",
           "CRC_ERR_IDX", "SFDTO_ERR_IDX"}
NoErrors == [i \in ErrIdx |-> 0]

\* errors[i] += 1
Inc(e, i) == [e EXCEPT ![i] = @ + 1]

\* check_for_status_errors(reg, errors): one entry per receive timeout or
\* receive error event found in reg
check_for_status_errors(reg, e) ==
    [i \in ErrIdx |->
        e[i] + (IF \/ i = "RTO_ERR_IDX" /\ "RXFTO" \in reg
                   \/ i = "CRC_ERR_IDX" /\ "RXFCE" \in reg
                   \/ i = "SFDTO_ERR_IDX" /\ "RXSTO" \in reg
                THEN 1 ELSE 0)]

\* slip: a bad STS score is not counted
InitStsRejectErrors_NoSts(reg, gs, e) ==
    LET e1 == check_for_status_errors(reg, e)
    IN  IF ~(RXFCG \subseteq reg) THEN Inc(e1, "BAD_FRAME_ERR_IDX") ELSE e1

\* ds_twr_initiator_sts, no good frame with a good STS: the status
\* errors, a missing RXFCG and a negative STS score are counted (stsQual,
\* which feeds CP_QUAL_ERR_IDX, is not part of the model)
InitStsRejectErrors(reg, gs, e) ==
    LET e1 == check_for_status_errors(reg, e)
        e2 == IF ~(RXFCG \subseteq reg) THEN Inc(e1, "BAD_FRAME_ERR_IDX") ELSE e1
    IN  IF gs < 0 THEN Inc(e2, "PREAMBLE_COUNT_ERR_IDX") ELSE e2

\* ds_twr_responder_sts: the same three counts
RespStsRejectErrors(reg, gs, e) ==
    LET e1 == check_for_status_errors(reg, e)
        e2 == IF ~(RXFCG \subseteq reg) THEN Inc(e1, "BAD_FRAME_ERR_IDX") ELSE e1
    IN  IF gs < 0 THEN Inc(e2, "PREAMBLE_COUNT_ERR_IDX") ELSE e2

\* ss_twr_initiator_sts_no_data, no SP3 packet: the status errors and a
\* negative STS score are counted
SsRejectErrors(reg, gs, e) ==
    LET e1 == check_for_status_errors(reg, e)
    IN  IF gs < 0 THEN Inc(e1, "PREAMBLE_COUNT_ERR_IDX") ELSE e1

(* ------------------------------- Init --------------------------------- *)
(* State when app_main reaches its main loop: the initiators have          *)
(* programmed their response timeout, simple_rx_pdoa has enabled its       *)
(* receiver, static buffers are zeroed.                                    *)
InitRxTo(a, d) ==
    IF ProgOf(a, d) \in {"ds_twr_initiator_sts", "ds_twr_initiator",
                         "ds_twr_sts_sdc_initiator"}
    THEN RESP_RX_TIMEOUT_UUS ELSE 0

Init ==
    /\ app \in Apps
    /\ stable = FALSE
    /\ air = NoFrame
    /\ SYS_STATUS = [d \in Dev |-> {}]
    /\ rx_on = [d \in Dev |-> ProgOf(app, d) = "simple_rx_pdoa"]
    /\ rx_to = [d \in Dev |-> InitRxTo(app, d)]
    /\ hw_rx = [d \in Dev |-> [kind |-> "zero", len |-> 0, data |-> << >>]]
    /\ sts_qual = [d \in Dev |-> 0]
    /\ sts_ctr = [d \in Dev |-> 0]
    /\ sts_key_loads = [d \in Dev |-> 0]
    /\ txq = [d \in Dev |-> NoFrame]
    /\ resp_exp = [d \in Dev |-> FALSE]
    /\ pc = [d \in Dev |-> CASE ProgOf(app, d) = "none" -> "off"
                             [] ProgOf(app, d) = "simple_rx_pdoa" -> "main"
                             [] OTHER -> "loop"]
    /\ status_reg = [d \in Dev |-> {}]
    /\ goodSts = [d \in Dev |-> 0]
    /\ rx_buffer = [d \in Dev |-> "zero"]
    /\ ret = [d \in Dev |-> DWT_SUCCESS]
    /\ outcome = [d \in Dev |-> "none"]
    /\ iter_ev = [d \in Dev |-> {}]
    /\ sts_op = [d \in Dev |-> "none"]
    /\ firstLoopFlag = 0
    /\ messageFlag = 0
    /\ loopCount = 0
    /\ distance_array_index = 0
    /\ range_ok = 0
    /\ pdoa_val = 0
    /\ last_pdoa_val = 0
    /\ MathInit
    /\ errors = [d \in Dev |-> NoErrors]
    /\ AesInit
    /\ AckInit
    /\ SleepInit

(* ------------------------- the transceiver ---------------------------- *)
UsesStsCounter(d) ==
    Prog(d) \in {"ds_twr_initiator_sts", "ds_twr_responder_sts",
                 "ss_twr_initiator_sts_no_data"}

NextCtr(d) == IF UsesStsCounter(d) THEN (sts_ctr[d] + 1) % CtrMod ELSE sts_ctr[d]

(* results dwt_starttx(DWT_START_TX_DELAYED) can have: once the channel    *)
(* is stable every delayed transmission is on time                         *)
StartTxResults == IF app = "pair" /\ stable THEN {DWT_SUCCESS}
                  ELSE {DWT_SUCCESS, DWT_ERROR}

(* a started transmission completes: TXFRS is raised, the frame is on its  *)
(* way to the peer when the peer's receiver is on (the previous frame has  *)
(* left the air by then), and with DWT_RESPONSE_EXPECTED the receiver      *)
(* turns on                                                                *)
HwTxDone(d) ==
    /\ txq[d] # NoFrame
    /\ app = "pair" => air = NoFrame
    /\ air' = IF app = "pair" /\ rx_on[Peer(d)]
              THEN [txq[d] EXCEPT !.sts = sts_ctr[d], !.src = d]
              ELSE air
    /\ txq' = Upd(txq, d, NoFrame)
    /\ SYS_STATUS' = Upd(SYS_STATUS, d, SYS_STATUS[d] \cup TXFRS)
    /\ rx_on' = Upd(rx_on, d, resp_exp[d])
    /\ sts_ctr' = Upd(sts_ctr, d, NextCtr(d))
    /\ UNCHANGED <<app, stable, rx_to, hw_rx, sts_qual, sts_key_loads, resp_exp>>
    /\ UNCHANGED <<swvars, appvars>>
    /\ UNCHANGED mathvars
    /\ UNCHANGED <<errors, aesvars, ackvars, sleepvars>>

(* scores dwt_readstsquality can return: negative is bad, 0 and up is good *)
Scores == {-1, 0, 1}
GoodScores == {s \in Scores : s >= 0}
BadScores == {s \in Scores : s < 0}

(* pair: the frame in flight reaches the peer's enabled receiver.  The STS *)
(* correlates when the receiver's counter equals the one the frame was     *)
(* sent with.                                                              *)
HwRxAir(d) ==
    /\ app = "pair"
    /\ rx_on[d]
    /\ air # NoFrame /\ air.src = Peer(d)
    /\ txq[d] = NoFrame
    /\ \E s \in (IF air.sts = sts_ctr[d] THEN GoodScores ELSE BadScores) :
          sts_qual' = Upd(sts_qual, d, s)
    /\ SYS_STATUS' = Upd(SYS_STATUS, d, SYS_STATUS[d] \cup RXFR \cup RXFCG)
    /\ hw_rx' = Upd(hw_rx, d, [kind |-> air.kind, len |-> air.len, data |-> air.data])
    /\ rx_on' = Upd(rx_on, d, FALSE)
    /\ sts_ctr' = Upd(sts_ctr, d, NextCtr(d))
    /\ air' = NoFrame
    /\ UNCHANGED <<app, stable, rx_to, sts_key_loads, txq, resp_exp>>
    /\ UNCHANGED <<swvars, appvars>>
    /\ UNCHANGED mathvars
    /\ UNCHANGED <<errors, aesvars, ackvars, sleepvars>>

(* pair: the peer is about to receive the frame in flight, holds a        *)
(* received frame it has not classified yet, is transmitting, or its own   *)
(* frame is in flight                                                      *)
Replying(p) ==
    \/ air # NoFrame /\ air.src = Peer(p) /\ rx_on[p]
    \/ txq[p] # NoFrame
    \/ air # NoFrame /\ air.src = p
    \/ pc[p] = "rx_wait" /\ ~rx_on[p] /\ RXFCG \subseteq SYS_STATUS[p]

(* pair: the programmed frame timeout expires.  Once the channel is stable *)
(* it only expires when no reply is on its way to this receiver.           *)
HwRxTimeoutPair(d) ==
    /\ app = "pair"
    /\ rx_on[d] /\ rx_to[d] # 0
    /\ txq[d] = NoFrame
    /\ stable => ~Replying(Peer(d))
    /\ SYS_STATUS' = Upd(SYS_STATUS, d, SYS_STATUS[d] \cup ALL_RX_TO)
    /\ rx_on' = Upd(rx_on, d, FALSE)
    /\ UNCHANGED <<envvars, rx_to, hw_rx, sts_qual, sts_ctr, sts_key_loads, txq, resp_exp>>
    /\ UNCHANGED <<swvars, appvars>>
    /\ UNCHANGED mathvars
    /\ UNCHANGED <<errors, aesvars, ackvars, sleepvars>>

(* pair: a frame is lost on the air (only before the channel is stable)    *)
AirLose ==
    /\ app = "pair" /\ ~stable
    /\ air # NoFrame
    /\ air' = NoFrame
    /\ UNCHANGED <<app, stable, hwvars, swvars, appvars>>
    /\ UNCHANGED mathvars
    /\ UNCHANGED <<errors, aesvars, ackvars, sleepvars>>

(* pair: a frame passes a receiver that is switched off                    *)
AirMiss ==
    /\ app = "pair"
    /\ air # NoFrame
    /\ ~rx_on[Peer(air.src)]
    /\ air' = NoFrame
    /\ UNCHANGED <<app, stable, hwvars, swvars, appvars>>
    /\ UNCHANGED mathvars
    /\ UNCHANGED <<errors, aesvars, ackvars, sleepvars>>

(* pair: from now on frames arrive intact and delayed TX is on time        *)
Stabilise ==
    /\ app = "pair" /\ ~stable
    /\ stable' = TRUE
    /\ UNCHANGED <<app, air, hwvars, swvars, appvars>>
    /\ UNCHANGED mathvars
    /\ UNCHANGED <<errors, aesvars, ackvars, sleepvars>>

(* single examples: the environment decides what the enabled receiver      *)
(* sees: a good frame, an SP3 packet, a frame with a CRC error (whose      *)
(* bytes can be anything), a sync loss, a timeout                          *)
EnvKinds(d) ==
    CASE Prog(d) \in {"ds_twr_responder_sts", "ds_twr_sts_sdc_responder"}
            -> {"poll", "final", "other"}
      [] Prog(d) = "ss_twr_initiator_sts_no_data" -> {"report", "other"}
      [] OTHER -> {"resp", "other"}

EnvLens(d) == IF Prog(d) = "ss_twr_initiator_sts_no_data" THEN {0, 16, 25}
              ELSE {12, 25}

HwRxEnv(d) ==
    /\ app # "pair"
    /\ rx_on[d]
    /\ txq[d] = NoFrame
    /\ \/ \E k \in EnvKinds(d), l \in EnvLens(d), s \in Scores :
             /\ pc[d] # "resp_wait"
             /\ SYS_STATUS' = Upd(SYS_STATUS, d, SYS_STATUS[d] \cup RXFR \cup RXFCG)
             /\ hw_rx' = Upd(hw_rx, d, [kind |-> k, len |-> l, data |-> << >>])
             /\ sts_qual' = Upd(sts_qual, d, s)
             /\ sts_ctr' = Upd(sts_ctr, d, NextCtr(d))
       \/ \E s \in Scores :
             /\ pc[d] = "resp_wait"
             /\ SYS_STATUS' = Upd(SYS_STATUS, d, SYS_STATUS[d] \cup RXFR)
             /\ sts_qual' = Upd(sts_qual, d, s)
             /\ sts_ctr' = Upd(sts_ctr, d, NextCtr(d))
             /\ UNCHANGED hw_rx
       \/ \E k \in EnvKinds(d), l \in EnvLens(d), s \in Scores :
             /\ pc[d] # "resp_wait"
             /\ SYS_STATUS' = Upd(SYS_STATUS, d, SYS_STATUS[d] \cup RXFR \cup {"RXFCE"})
             /\ hw_rx' = Upd(hw_rx, d, [kind |-> k, len |-> l, data |-> << >>])
             /\ sts_qual' = Upd(sts_qual, d, s)
             /\ sts_ctr' = Upd(sts_ctr, d, NextCtr(d))
       \/ /\ SYS_STATUS' = Upd(SYS_STATUS, d, SYS_STATUS[d] \cup {"RXSTO"})
          /\ UNCHANGED <<hw_rx, sts_qual, sts_ctr>>
       \/ /\ rx_to[d] # 0
          /\ SYS_STATUS' = Upd(SYS_STATUS, d, SYS_STATUS[d] \cup ALL_RX_TO)
          /\ UNCHANGED <<hw_rx, sts_qual, sts_ctr>>
    /\ rx_on' = Upd(rx_on, d, FALSE)
    /\ UNCHANGED <<envvars, rx_to, sts_key_loads, txq, resp_exp>>
    /\ UNCHANGED <<swvars, appvars>>
    /\ UNCHANGED mathvars
    /\ UNCHANGED <<errors, aesvars, ackvars, sleepvars>>

\* slip: the key and the full IV are written in every exchange
StsOpOf_Full(first) == "full"

(* the STS configuration at the start of an exchange: the first time the   *)
(* key and the full IV, afterwards only the low 32 bits of the IV          *)
StsOpOf(first) == IF first THEN "full" ELSE "ctr"
KeyLoadsAfter(n, op) == IF op = "full" THEN (IF n < 2 THEN n + 1 ELSE 2) ELSE n

(* ---------------------- ds_twr_initiator_sts -------------------------- *)
\* the frame is good when RXFCG is set and the STS score is not negative
InitStsGoodRx(st, gs) == RXFCG \subseteq st /\ gs >= 0

\* slip: every frame that fits is taken for the response
InitStsIsResp_Any(kind) == TRUE

\* memcmp(rx_buffer, rx_resp_msg, ALL_MSG_COMMON_LEN) == 0
InitStsIsResp(kind) == kind = "resp"

\* slip: the return value of dwt_starttx is not tested
InitStsAfterStartTx_Wait(r) == "final_txwait"

\* a failed dwt_starttx skips the TXFRS wait
InitStsAfterStartTx(r) == IF r = DWT_SUCCESS THEN "final_txwait" ELSE "rng_delay"

\* top of the loop: STS configuration, then send_tx_poll_msg()
InitStsLoopTop ==
    LET d == "I"
        op == StsOpOf(firstLoopFlag = 0)
    IN  /\ Prog(d) = "ds_twr_initiator_sts"
        /\ pc[d] = "loop"
        /\ sts_op' = Upd(sts_op, d, op)
        /\ sts_key_loads' = Upd(sts_key_loads, d, KeyLoadsAfter(sts_key_loads[d], op))
        /\ sts_ctr' = Upd(sts_ctr, d, STS_IV0)
        /\ firstLoopFlag' = 1
        /\ SYS_STATUS' = Upd(SYS_STATUS, d, SYS_STATUS[d] \ TXFRS)
        /\ txq' = Upd(txq, d, tx_poll_msg)
        /\ resp_exp' = Upd(resp_exp, d, TRUE)
        /\ iter_ev' = Upd(iter_ev, d, {"poll"})
        /\ pc' = Upd(pc, d, "poll_txwait")
        /\ UNCHANGED <<envvars, rx_on, rx_to, hw_rx, sts_qual>>
        /\ UNCHANGED <<status_reg, goodSts, rx_buffer, ret, outcome>>
        /\ UNCHANGED <<messageFlag, loopCount, distance_array_index, range_ok,
                       pdoa_val, last_pdoa_val>>
        /\ UNCHANGED mathvars
        /\ errors' = Upd(errors, d, NoErrors)
        /\ UNCHANGED <<aesvars, ackvars, sleepvars>>

\* send_tx_poll_msg(): poll until TXFRS, clear it
InitStsPollTxWait ==
    LET d == "I"
    IN  /\ Prog(d) = "ds_twr_initiator_sts"
        /\ pc[d] = "poll_txwait"
        /\ TXFRS \subseteq SYS_STATUS[d]
        /\ SYS_STATUS' = Upd(SYS_STATUS, d, SYS_STATUS[d] \ TXFRS)
        /\ pc' = Upd(pc, d, "rx_wait")
        /\ UNCHANGED <<envvars, rx_on, rx_to, hw_rx, sts_qual, sts_ctr,
                       sts_key_loads, txq, resp_exp>>
        /\ UNCHANGED <<status_reg, goodSts, rx_buffer, ret, outcome, iter_ev, sts_op>>
        /\ UNCHANGED appvars
        /\ UNCHANGED mathvars
        /\ UNCHANGED <<errors, aesvars, ackvars, sleepvars>>

\* the status wait ends; the reception is classified and, for a valid
\* response, the final is written and its delayed transmission started
InitStsProcRx ==
    LET d == "I"
        st == SYS_STATUS[d]
        gs == sts_qual[d]
        good == InitStsGoodRx(st, gs)
        fits == hw_rx[d].len <= RX_BUF_LEN_STS
        buf == IF good /\ fits THEN hw_rx[d].kind ELSE rx_buffer[d]
        match == good /\ fits /\ InitStsIsResp(buf)
        st1 == IF good THEN st \ ALL_RX_GOOD ELSE st
        stEnd == st1 \ (ALL_RX_GOOD \cup ALL_RX_TO \cup ALL_RX_ERR)
    IN  /\ Prog(d) = "ds_twr_initiator_sts"
        /\ pc[d] = "rx_wait"
        /\ st \cap (RXFCG \cup ALL_RX_TO \cup ALL_RX_ERR) # {}
        /\ status_reg' = Upd(status_reg, d, st)
        /\ goodSts' = Upd(goodSts, d, gs)
        /\ rx_buffer' = Upd(rx_buffer, d, buf)
        /\ rx_on' = Upd(rx_on, d, IF match THEN FALSE ELSE rx_on[d])
        /\ IF match
           THEN \E r \in StartTxResults :
                  /\ ret' = Upd(ret, d, r)
                  /\ pc' = Upd(pc, d, InitStsAfterStartTx(r))
                  /\ IF r = DWT_SUCCESS
                     THEN /\ txq' = Upd(txq, d, tx_final_msg)
                          /\ resp_exp' = Upd(resp_exp, d, FALSE)
                          /\ SYS_STATUS' = Upd(SYS_STATUS, d, st1)
                          /\ outcome' = Upd(outcome, d, "tx_started")
                          /\ iter_ev' = Upd(iter_ev, d, iter_ev[d] \cup {"resp_ok", "final"})
                     ELSE /\ UNCHANGED <<txq, resp_exp>>
                          /\ SYS_STATUS' = Upd(SYS_STATUS, d, stEnd)
                          /\ outcome' = Upd(outcome, d, "late")
                          /\ iter_ev' = Upd(iter_ev, d, iter_ev[d] \cup {"resp_ok", "late"})
           ELSE /\ pc' = Upd(pc, d, "rng_delay")
                /\ SYS_STATUS' = Upd(SYS_STATUS, d, stEnd)
                /\ outcome' = Upd(outcome, d,
                      IF good /\ fits THEN "bad_frame"
                      ELSE IF good THEN "oversize" ELSE "rx_fail")
                /\ iter_ev' = Upd(iter_ev, d, iter_ev[d] \cup {"rx_rejected"})
                /\ UNCHANGED <<ret, txq, resp_exp>>
        /\ UNCHANGED <<envvars, rx_to, hw_rx, sts_qual, sts_ctr, sts_key_loads>>
        /\ UNCHANGED sts_op
        /\ UNCHANGED appvars
        /\ UNCHANGED mathvars
        /\ errors' = Upd(errors, d, 
              IF match THEN errors[d]
              ELSE IF good /\ fits THEN Inc(errors[d], "BAD_FRAME_ERR_IDX")
              ELSE IF good THEN Inc(errors[d], "RTO_ERR_IDX")
              ELSE InitStsRejectErrors(st, gs, errors[d]))
        /\ UNCHANGED <<aesvars, ackvars, sleepvars>>

\* poll until TXFRS of the final, clear it; then the RX events are cleared
InitStsFinalTxWait ==
    LET d == "I"
    IN  /\ Prog(d) = "ds_twr_initiator_sts"
        /\ pc[d] = "final_txwait"
        /\ TXFRS \subseteq SYS_STATUS[d]
        /\ SYS_STATUS' = Upd(SYS_STATUS, d,
              (SYS_STATUS[d] \ TXFRS) \ (ALL_RX_GOOD \cup ALL_RX_TO \cup ALL_RX_ERR))
        /\ pc' = Upd(pc, d, "rng_delay")
        /\ UNCHANGED <<envvars, rx_on, rx_to, hw_rx, sts_qual, sts_ctr,
                       sts_key_loads, txq, resp_exp>>
        /\ UNCHANGED <<status_reg, goodSts, rx_buffer, ret, outcome, iter_ev, sts_op>>
        /\ UNCHANGED appvars
        /\ UNCHANGED mathvars
        /\ UNCHANGED <<errors, aesvars, ackvars, sleepvars>>

\* Sleep(RNG_DELAY_MS), shared by the initiators
RngDelay ==
    LET d == "I"
    IN  /\ pc[d] = "rng_delay"
        /\ pc' = Upd(pc, d, "loop")
        /\ UNCHANGED <<envvars, hwvars>>
        /\ UNCHANGED <<status_reg, goodSts, rx_buffer, ret, outcome, iter_ev, sts_op>>
        /\ UNCHANGED appvars
        /\ UNCHANGED mathvars
        /\ UNCHANGED <<errors, aesvars, ackvars, sleepvars>>

(* ---------------------- ds_twr_responder_sts -------------------------- *)
\* slip: the STS score is not part of the test
RespStsGoodRx_NoSts(st, gs) == RXFCG \subseteq st

\* the frame is good when RXFCG is set and the STS score is not negative
RespStsGoodRx(st, gs) == RXFCG \subseteq st /\ gs >= 0

\* a failed dwt_starttx skips the TXFRS wait and leaves messageFlag alone
RespStsAfterStartTx(r) == IF r = DWT_SUCCESS THEN "resp_txwait" ELSE "loop"

\* slip: the STS is loaded in every iteration
RespStsReload_Always(mf) == TRUE

\* the STS is (re)loaded only when no exchange is in progress
RespStsReload(mf) == mf = 0

\* slip: the oversize branch forgets to reset the flag
RespStsFlagAfterReject_Keep(mf, branch) == IF branch = "oversize" THEN mf ELSE 0

\* messageFlag after a reception that was not answered with a response:
\* every such branch resets it
RespStsFlagAfterReject(mf, branch) == 0

\* slip: the loop runs once more
RespStsLoopCond_Le(lc) == lc <= RANGE_COUNT

\* while (loopCount < RANGE_COUNT)
RespStsLoopCond(lc) == lc < RANGE_COUNT

\* while (loopCount < RANGE_COUNT): STS load and dwt_rxenable when
\* messageFlag is clear; return DWT_SUCCESS when the count is reached
RespStsLoopTop ==
    LET d == "R"
        start == RespStsReload(messageFlag)
        op == IF start THEN StsOpOf(loopCount = 0) ELSE "none"
    IN  /\ Prog(d) = "ds_twr_responder_sts"
        /\ pc[d] = "loop"
        /\ IF RespStsLoopCond(loopCount)
           THEN /\ sts_op' = Upd(sts_op, d, op)
                /\ sts_key_loads' = Upd(sts_key_loads, d, KeyLoadsAfter(sts_key_loads[d], op))
                /\ sts_ctr' = Upd(sts_ctr, d, IF start THEN STS_IV0 ELSE sts_ctr[d])
                /\ loopCount' = IF messageFlag = 0 THEN (loopCount + 1) % 256 ELSE loopCount
                /\ rx_on' = Upd(rx_on, d, IF messageFlag = 0 THEN TRUE ELSE rx_on[d])
                /\ iter_ev' = Upd(iter_ev, d, {})
                /\ pc' = Upd(pc, d, "rx_wait")
                /\ errors' = Upd(errors, d, NoErrors)
           ELSE /\ pc' = Upd(pc, d, "done")
                /\ UNCHANGED <<sts_op, sts_key_loads, sts_ctr, loopCount, rx_on, iter_ev>>
                /\ UNCHANGED errors
        /\ UNCHANGED <<envvars, SYS_STATUS, rx_to, hw_rx, sts_qual, txq, resp_exp>>
        /\ UNCHANGED <<status_reg, goodSts, rx_buffer, ret, outcome>>
        /\ UNCHANGED <<firstLoopFlag, messageFlag, distance_array_index, range_ok,
                       pdoa_val, last_pdoa_val>>
        /\ UNCHANGED mathvars
        /\ UNCHANGED <<aesvars, ackvars, sleepvars>>

\* the status wait ends; the reception is classified: a poll is answered
\* with a delayed response, a final yields a distance, anything else is
\* an error
RespStsProcRx ==
    LET d == "R"
        st == SYS_STATUS[d]
        gs == sts_qual[d]
        good == RespStsGoodRx(st, gs)
        fits == hw_rx[d].len <= RX_BUF_LEN_STS
        buf == IF good /\ fits THEN hw_rx[d].kind ELSE rx_buffer[d]
        isPoll == good /\ fits /\ buf = "poll"
        isFinal == good /\ fits /\ buf = "final"
        branch == IF isFinal THEN "final_ok"
                  ELSE IF good /\ fits THEN "bad_frame"
                  ELSE IF good THEN "oversize" ELSE "rx_fail"
        stGood == st \ RXFCG
    IN  /\ Prog(d) = "ds_twr_responder_sts"
        /\ pc[d] = "rx_wait"
        /\ st \cap (RXFCG \cup ALL_RX_TO \cup ALL_RX_ERR) # {}
        /\ status_reg' = Upd(status_reg, d, st)
        /\ goodSts' = Upd(goodSts, d, gs)
        /\ rx_buffer' = Upd(rx_buffer, d, buf)
        /\ rx_on' = Upd(rx_on, d, IF isPoll THEN FALSE ELSE rx_on[d])
        /\ IF isPoll
           THEN \E r \in StartTxResults :
                  /\ ret' = Upd(ret, d, r)
                  /\ pc' = Upd(pc, d, RespStsAfterStartTx(r))
                  /\ SYS_STATUS' = Upd(SYS_STATUS, d, stGood \ TXFRS)
                  /\ IF r = DWT_SUCCESS
                     THEN /\ txq' = Upd(txq, d, tx_resp_msg)
                          /\ resp_exp' = Upd(resp_exp, d, TRUE)
                          /\ outcome' = Upd(outcome, d, "tx_started")
                          /\ iter_ev' = Upd(iter_ev, d, iter_ev[d] \cup {"poll_ok", "resp"})
                     ELSE /\ UNCHANGED <<txq, resp_exp>>
                          /\ outcome' = Upd(outcome, d, "late")
                          /\ iter_ev' = Upd(iter_ev, d, iter_ev[d] \cup {"poll_ok", "late"})
                  /\ UNCHANGED <<messageFlag, distance_array_index>>
           ELSE /\ pc' = Upd(pc, d, "loop")
                /\ SYS_STATUS' = Upd(SYS_STATUS, d, IF good THEN stGood ELSE st \ ALL_RX_ERR)
                /\ outcome' = Upd(outcome, d, branch)
                /\ iter_ev' = Upd(iter_ev, d,
                      iter_ev[d] \cup (IF isFinal THEN {"dist"} ELSE {"rx_rejected"}))
                /\ distance_array_index' =
                      IF isFinal THEN distance_array_index + 1 ELSE distance_array_index
                /\ messageFlag' = IF isFinal THEN 0
                                  ELSE RespStsFlagAfterReject(messageFlag, branch)
                /\ UNCHANGED <<ret, txq, resp_exp>>
        /\ UNCHANGED <<envvars, rx_to, hw_rx, sts_qual, sts_ctr, sts_key_loads>>
        /\ UNCHANGED sts_op
        /\ UNCHANGED <<firstLoopFlag, loopCount, range_ok, pdoa_val, last_pdoa_val>>
        /\ UNCHANGED mathvars
        /\ errors' = Upd(errors, d, 
              IF isPoll \/ isFinal THEN errors[d]
              ELSE IF good /\ fits THEN Inc(errors[d], "BAD_FRAME_ERR_IDX")
              ELSE IF good THEN Inc(errors[d], "RTO_ERR_IDX")
              ELSE RespStsRejectErrors(st, gs, errors[d]))
        /\ UNCHANGED <<aesvars, ackvars, sleepvars>>

\* poll until TXFRS of the response, clear it, set messageFlag
RespStsTxWait ==
    LET d == "R"
    IN  /\ Prog(d) = "ds_twr_responder_sts"
        /\ pc[d] = "resp_txwait"
        /\ TXFRS \subseteq SYS_STATUS[d]
        /\ SYS_STATUS' = Upd(SYS_STATUS, d, SYS_STATUS[d] \ TXFRS)
        /\ messageFlag' = 1
        /\ pc' = Upd(pc, d, "loop")
        /\ UNCHANGED <<envvars, rx_on, rx_to, hw_rx, sts_qual, sts_ctr,
                       sts_key_loads, txq, resp_exp>>
        /\ UNCHANGED <<status_reg, goodSts, rx_buffer, ret, outcome, iter_ev, sts_op>>
        /\ UNCHANGED <<firstLoopFlag, loopCount, distance_array_index, range_ok,
                       pdoa_val, last_pdoa_val>>
        /\ UNCHANGED mathvars
        /\ UNCHANGED <<errors, aesvars, ackvars, sleepvars>>

(* ------------------------- ds_twr_initiator --------------------------- *)
\* slip: the TXFRS wait is entered although dwt_starttx failed
InitAfterStartTx_Wait(r) == "final_txwait"

\* if (ret == DWT_SUCCESS): only then the TXFRS wait
InitAfterStartTx(r) == IF r = DWT_SUCCESS THEN "final_txwait" ELSE "rng_delay"

\* top of the loop: write the poll and start it with DWT_RESPONSE_EXPECTED
InitLoopTop ==
    LET d == "I"
    IN  /\ Prog(d) = "ds_twr_initiator"
        /\ pc[d] = "loop"
        /\ txq' = Upd(txq, d, tx_poll_msg_sdc)
        /\ resp_exp' = Upd(resp_exp, d, TRUE)
        /\ iter_ev' = Upd(iter_ev, d, {"poll"})
        /\ pc' = Upd(pc, d, "rx_wait")
        /\ UNCHANGED <<envvars, SYS_STATUS, rx_on, rx_to, hw_rx, sts_qual, sts_ctr,
                       sts_key_loads>>
        /\ UNCHANGED <<status_reg, goodSts, rx_buffer, ret, outcome, sts_op>>
        /\ UNCHANGED appvars
        /\ UNCHANGED mathvars
        /\ UNCHANGED <<errors, aesvars, ackvars, sleepvars>>

\* the status wait ends.  With RXFCG the frame is read into rx_buffer only
\* if it fits, and rx_buffer is compared with the response template in
\* either case.
InitProcRx ==
    LET d == "I"
        st == SYS_STATUS[d]
        good == RXFCG \subseteq st
        fits == hw_rx[d].len <= RX_BUF_LEN_INIT
        buf == IF good /\ fits THEN hw_rx[d].kind ELSE rx_buffer[d]
        match == good /\ buf = "resp"
        stGood == st \ (RXFCG \cup TXFRS)
        stBad == st \ (ALL_RX_TO \cup ALL_RX_ERR \cup TXFRS)
    IN  /\ Prog(d) = "ds_twr_initiator"
        /\ pc[d] = "rx_wait"
        /\ st \cap (RXFCG \cup ALL_RX_TO \cup ALL_RX_ERR) # {}
        /\ status_reg' = Upd(status_reg, d, st)
        /\ rx_buffer' = Upd(rx_buffer, d, buf)
        /\ rx_on' = Upd(rx_on, d, IF match THEN FALSE ELSE rx_on[d])
        /\ SYS_STATUS' = Upd(SYS_STATUS, d, IF good THEN stGood ELSE stBad)
        /\ IF match
           THEN \E r \in StartTxResults :
                  /\ ret' = Upd(ret, d, r)
                  /\ pc' = Upd(pc, d, InitAfterStartTx(r))
                  /\ IF r = DWT_SUCCESS
                     THEN /\ txq' = Upd(txq, d, tx_final_msg_sdc)
                          /\ resp_exp' = Upd(resp_exp, d, FALSE)
                          /\ outcome' = Upd(outcome, d, "tx_started")
                          /\ iter_ev' = Upd(iter_ev, d, iter_ev[d] \cup
                                (IF fits THEN {"resp_ok"} ELSE {"stale_ok"}) \cup {"final"})
                     ELSE /\ UNCHANGED <<txq, resp_exp>>
                          /\ outcome' = Upd(outcome, d, "late")
                          /\ iter_ev' = Upd(iter_ev, d, iter_ev[d] \cup
                                (IF fits THEN {"resp_ok"} ELSE {"stale_ok"}) \cup {"late"})
           ELSE /\ pc' = Upd(pc, d, "rng_delay")
                /\ outcome' = Upd(outcome, d, IF good THEN "bad_frame" ELSE "rx_fail")
                /\ iter_ev' = Upd(iter_ev, d, iter_ev[d] \cup {"rx_rejected"})
                /\ UNCHANGED <<ret, txq, resp_exp>>
        /\ UNCHANGED <<envvars, rx_to, hw_rx, sts_qual, sts_ctr, sts_key_loads>>
        /\ UNCHANGED <<goodSts, sts_op>>
        /\ UNCHANGED appvars
        /\ UNCHANGED mathvars
        /\ UNCHANGED <<errors, aesvars, ackvars, sleepvars>>

\* poll until TXFRS of the final, clear it
InitFinalTxWait ==
    LET d == "I"
    IN  /\ Prog(d) \in {"ds_twr_initiator", "ds_twr_sts_sdc_initiator"}
        /\ pc[d] = "final_txwait"
        /\ TXFRS \subseteq SYS_STATUS[d]
        /\ SYS_STATUS' = Upd(SYS_STATUS, d, SYS_STATUS[d] \ TXFRS)
        /\ pc' = Upd(pc, d, "rng_delay")
        /\ UNCHANGED <<envvars, rx_on, rx_to, hw_rx, sts_qual, sts_ctr,
                       sts_key_loads, txq, resp_exp>>
        /\ UNCHANGED <<status_reg, goodSts, rx_buffer, ret, outcome, iter_ev, sts_op>>
        /\ UNCHANGED appvars
        /\ UNCHANGED mathvars
        /\ UNCHANGED <<errors, aesvars, ackvars, sleepvars>>

(* --------------------- ds_twr_sts_sdc_initiator ----------------------- *)
\* if (dwt_readstsquality(&stsqual)): any non-zero score passes
SdcInitStsOk(q) == q # 0

SdcInitAfterStartTx(r) == IF r = DWT_SUCCESS THEN "final_txwait" ELSE "rng_delay"

\* top of the loop: write the poll, clear all events, start the poll
SdcInitLoopTop ==
    LET d == "I"
    IN  /\ Prog(d) = "ds_twr_sts_sdc_initiator"
        /\ pc[d] = "loop"
        /\ SYS_STATUS' = Upd(SYS_STATUS, d, {})
        /\ txq' = Upd(txq, d, tx_poll_msg_sdc)
        /\ resp_exp' = Upd(resp_exp, d, TRUE)
        /\ iter_ev' = Upd(iter_ev, d, {"poll"})
        /\ pc' = Upd(pc, d, "rx_wait")
        /\ UNCHANGED <<envvars, rx_on, rx_to, hw_rx, sts_qual, sts_ctr, sts_key_loads>>
        /\ UNCHANGED <<status_reg, goodSts, rx_buffer, ret, outcome, sts_op>>
        /\ UNCHANGED appvars
        /\ UNCHANGED mathvars
        /\ UNCHANGED <<errors, aesvars, ackvars, sleepvars>>

SdcInitProcRx ==
    LET d == "I"
        st == SYS_STATUS[d]
        good == RXFCG \subseteq st
        stsok == good /\ SdcInitStsOk(sts_qual[d])
        fits == hw_rx[d].len <= RX_BUF_LEN_SDC_INIT
        buf == IF stsok /\ fits THEN hw_rx[d].kind ELSE rx_buffer[d]
        match == stsok /\ buf = "resp"
        stGood == st \ (RXFCG \cup TXFRS)
        stBad == st \ (ALL_RX_TO \cup ALL_RX_ERR)
    IN  /\ Prog(d) = "ds_twr_sts_sdc_initiator"
        /\ pc[d] = "rx_wait"
        /\ st \cap (RXFCG \cup ALL_RX_TO \cup ALL_RX_ERR) # {}
        /\ status_reg' = Upd(status_reg, d, st)
        /\ goodSts' = Upd(goodSts, d, IF good THEN sts_qual[d] ELSE goodSts[d])
        /\ rx_buffer' = Upd(rx_buffer, d, buf)
        /\ rx_on' = Upd(rx_on, d, IF match THEN FALSE ELSE rx_on[d])
        /\ SYS_STATUS' = Upd(SYS_STATUS, d, IF good THEN stGood ELSE stBad)
        /\ IF match
           THEN \E r \in StartTxResults :
                  /\ ret' = Upd(ret, d, r)
                  /\ pc' = Upd(pc, d, SdcInitAfterStartTx(r))
                  /\ IF r = DWT_SUCCESS
                     THEN /\ txq' = Upd(txq, d, tx_final_msg_sdc)
                          /\ resp_exp' = Upd(resp_exp, d, FALSE)
                          /\ outcome' = Upd(outcome, d, "tx_started")
                          /\ iter_ev' = Upd(iter_ev, d, iter_ev[d] \cup
                                (IF fits THEN {"resp_ok"} ELSE {"stale_ok"}) \cup {"final"})
                     ELSE /\ UNCHANGED <<txq, resp_exp>>
                          /\ outcome' = Upd(outcome, d, "late")
                          /\ iter_ev' = Upd(iter_ev, d, iter_ev[d] \cup
                                (IF fits THEN {"resp_ok"} ELSE {"stale_ok"}) \cup {"late"})
           ELSE /\ pc' = Upd(pc, d, "rng_delay")
                /\ outcome' = Upd(outcome, d,
                      IF stsok THEN "bad_frame" ELSE IF good THEN "bad_sts" ELSE "rx_fail")
                /\ iter_ev' = Upd(iter_ev, d, iter_ev[d] \cup {"rx_rejected"})
                /\ UNCHANGED <<ret, txq, resp_exp>>
        /\ UNCHANGED <<envvars, rx_to, hw_rx, sts_qual, sts_ctr, sts_key_loads>>
        /\ UNCHANGED sts_op
        /\ UNCHANGED appvars
        /\ UNCHANGED mathvars
        /\ UNCHANGED <<errors, aesvars, ackvars, sleepvars>>

(* --------------------- ds_twr_sts_sdc_responder ----------------------- *)
\* if (dwt_readstsquality(&stsqual)): any non-zero score passes
SdcRespStsOk(q) == q # 0

\* if (ret == DWT_ERROR) continue;
SdcRespAfterStartTx(r) == IF r = DWT_ERROR THEN "loop" ELSE "final_wait"

\* top of the loop: timeouts off, receiver on
SdcRespLoopTop ==
    LET d == "R"
    IN  /\ Prog(d) = "ds_twr_sts_sdc_responder"
        /\ pc[d] = "loop"
        /\ rx_to' = Upd(rx_to, d, 0)
        /\ rx_on' = Upd(rx_on, d, TRUE)
        /\ iter_ev' = Upd(iter_ev, d, {})
        /\ pc' = Upd(pc, d, "poll_wait")
        /\ UNCHANGED <<envvars, SYS_STATUS, hw_rx, sts_qual, sts_ctr, sts_key_loads,
                       txq, resp_exp>>
        /\ UNCHANGED <<status_reg, goodSts, rx_buffer, ret, outcome, sts_op>>
        /\ UNCHANGED appvars
        /\ UNCHANGED mathvars
        /\ UNCHANGED <<errors, aesvars, ackvars, sleepvars>>

\* first status wait ends: a poll with passing STS is answered with a
\* delayed response and the final's timeout is programmed
SdcRespProcPoll ==
    LET d == "R"
        st == SYS_STATUS[d]
        good == RXFCG \subseteq st
        stsok == good /\ SdcRespStsOk(sts_qual[d])
        fits == hw_rx[d].len <= RX_BUF_LEN_SDC_RESP
        buf == IF stsok /\ fits THEN hw_rx[d].kind ELSE rx_buffer[d]
        match == stsok /\ buf = "poll"
    IN  /\ Prog(d) = "ds_twr_sts_sdc_responder"
        /\ pc[d] = "poll_wait"
        /\ st \cap (RXFCG \cup ALL_RX_TO \cup ALL_RX_ERR) # {}
        /\ status_reg' = Upd(status_reg, d, st)
        /\ goodSts' = Upd(goodSts, d, IF good THEN sts_qual[d] ELSE goodSts[d])
        /\ rx_buffer' = Upd(rx_buffer, d, buf)
        /\ SYS_STATUS' = Upd(SYS_STATUS, d,
              IF good THEN st \ RXFCG ELSE st \ (ALL_RX_TO \cup ALL_RX_ERR))
        /\ rx_on' = Upd(rx_on, d, IF match THEN FALSE ELSE rx_on[d])
        /\ rx_to' = Upd(rx_to, d, IF match THEN FINAL_RX_TIMEOUT_UUS ELSE rx_to[d])
        /\ IF match
           THEN /\ \E r \in StartTxResults :
                     /\ ret' = Upd(ret, d, r)
                     /\ pc' = Upd(pc, d, SdcRespAfterStartTx(r))
                     /\ IF r = DWT_SUCCESS
                        THEN /\ txq' = Upd(txq, d, tx_resp_msg_sdc)
                             /\ resp_exp' = Upd(resp_exp, d, TRUE)
                             /\ outcome' = Upd(outcome, d, "tx_started")
                             /\ iter_ev' = Upd(iter_ev, d, iter_ev[d] \cup
                                   (IF fits THEN {"poll_ok"} ELSE {"stale_ok"}) \cup {"resp"})
                        ELSE /\ UNCHANGED <<txq, resp_exp>>
                             /\ outcome' = Upd(outcome, d, "late")
                             /\ iter_ev' = Upd(iter_ev, d, iter_ev[d] \cup
                                   (IF fits THEN {"poll_ok"} ELSE {"stale_ok"}) \cup {"late"})
                /\ UNCHANGED range_ok
           ELSE /\ pc' = Upd(pc, d, "loop")
                /\ outcome' = Upd(outcome, d,
                      IF stsok THEN "bad_frame" ELSE IF good THEN "bad_sts" ELSE "rx_fail")
                /\ iter_ev' = Upd(iter_ev, d, iter_ev[d] \cup {"rx_rejected"})
                /\ range_ok' = 0
                /\ UNCHANGED <<ret, txq, resp_exp>>
        /\ UNCHANGED <<envvars, hw_rx, sts_qual, sts_ctr, sts_key_loads>>
        /\ UNCHANGED sts_op
        /\ UNCHANGED <<firstLoopFlag, messageFlag, loopCount, distance_array_index,
                       pdoa_val, last_pdoa_val>>
        /\ UNCHANGED mathvars
        /\ UNCHANGED <<errors, aesvars, ackvars, sleepvars>>

\* second status wait ends: a final with passing STS yields a distance
\* (range_ok = 1, reset again after Sleep(DELAY_MS) at the end of the body)
SdcRespProcFinal ==
    LET d == "R"
        st == SYS_STATUS[d]
        good == RXFCG \subseteq st
        stsok == good /\ SdcRespStsOk(sts_qual[d])
        fits == hw_rx[d].len <= RX_BUF_LEN_SDC_RESP
        buf == IF stsok /\ fits THEN hw_rx[d].kind ELSE rx_buffer[d]
        match == stsok /\ buf = "final"
    IN  /\ Prog(d) = "ds_twr_sts_sdc_responder"
        /\ pc[d] = "final_wait"
        /\ st \cap (RXFCG \cup ALL_RX_TO \cup ALL_RX_ERR) # {}
        /\ status_reg' = Upd(status_reg, d, st)
        /\ goodSts' = Upd(goodSts, d, IF good THEN sts_qual[d] ELSE goodSts[d])
        /\ rx_buffer' = Upd(rx_buffer, d, buf)
        /\ SYS_STATUS' = Upd(SYS_STATUS, d,
              IF good THEN st \ (RXFCG \cup TXFRS) ELSE st \ (ALL_RX_TO \cup ALL_RX_ERR))
        /\ outcome' = Upd(outcome, d,
              IF match THEN "final_ok"
              ELSE IF stsok THEN "bad_frame" ELSE IF good THEN "bad_sts" ELSE "rx_fail")
        /\ iter_ev' = Upd(iter_ev, d, iter_ev[d] \cup
              (IF match THEN (IF fits THEN {"dist"} ELSE {"dist", "stale_final"})
               ELSE {"rx_rejected"}))
        /\ range_ok' = 0
        /\ pc' = Upd(pc, d, "loop")
        /\ UNCHANGED <<envvars, rx_on, rx_to, hw_rx, sts_qual, sts_ctr, sts_key_loads,
                       txq, resp_exp>>
        /\ UNCHANGED <<ret, sts_op>>
        /\ UNCHANGED <<firstLoopFlag, messageFlag, loopCount, distance_array_index,
                       pdoa_val, last_pdoa_val>>
        /\ UNCHANGED mathvars
        /\ UNCHANGED <<errors, aesvars, ackvars, sleepvars>>

(* ------------------- ss_twr_initiator_sts_no_data --------------------- *)
RESP_RX_TIMEOUT_UUS_SS == 1000

\* top of the loop: STS configuration, then send_tx_poll_msg()
SsLoopTop ==
    LET d == "I"
        op == StsOpOf(firstLoopFlag = 0)
    IN  /\ Prog(d) = "ss_twr_initiator_sts_no_data"
        /\ pc[d] = "loop"
        /\ sts_op' = Upd(sts_op, d, op)
        /\ sts_key_loads' = Upd(sts_key_loads, d, KeyLoadsAfter(sts_key_loads[d], op))
        /\ sts_ctr' = Upd(sts_ctr, d, STS_IV0)
        /\ firstLoopFlag' = 1
        /\ SYS_STATUS' = Upd(SYS_STATUS, d, SYS_STATUS[d] \ TXFRS)
        /\ txq' = Upd(txq, d, sp3_poll_packet)
        /\ resp_exp' = Upd(resp_exp, d, FALSE)
        /\ iter_ev' = Upd(iter_ev, d, {"poll"})
        /\ pc' = Upd(pc, d, "poll_txwait")
        /\ UNCHANGED <<envvars, rx_on, rx_to, hw_rx, sts_qual>>
        /\ UNCHANGED <<status_reg, goodSts, rx_buffer, ret, outcome>>
        /\ UNCHANGED <<messageFlag, loopCount, distance_array_index, range_ok,
                       pdoa_val, last_pdoa_val>>
        /\ UNCHANGED mathvars
        /\ errors' = Upd(errors, d, NoErrors)
        /\ UNCHANGED <<aesvars, ackvars, sleepvars>>

\* TXFRS of the poll; then the response timeout and the delayed receiver
\* enable
SsPollTxWait ==
    LET d == "I"
    IN  /\ Prog(d) = "ss_twr_initiator_sts_no_data"
        /\ pc[d] = "poll_txwait"
        /\ TXFRS \subseteq SYS_STATUS[d]
        /\ SYS_STATUS' = Upd(SYS_STATUS, d, SYS_STATUS[d] \ TXFRS)
        /\ rx_to' = Upd(rx_to, d, RESP_RX_TIMEOUT_UUS_SS)
        /\ rx_on' = Upd(rx_on, d, TRUE)
        /\ pc' = Upd(pc, d, "resp_wait")
        /\ UNCHANGED <<envvars, hw_rx, sts_qual, sts_ctr, sts_key_loads, txq, resp_exp>>
        /\ UNCHANGED <<status_reg, goodSts, rx_buffer, ret, outcome, iter_ev, sts_op>>
        /\ UNCHANGED appvars
        /\ UNCHANGED mathvars
        /\ UNCHANGED <<errors, aesvars, ackvars, sleepvars>>

\* slip: the STS score of the SP3 packet is not tested
SsRespOk_NoSts(st, gs) == RXFR \subseteq st

\* the SP3 response packet is taken when RXFR is set and the STS score is
\* not negative
SsRespOk(st, gs) == RXFR \subseteq st /\ gs >= 0

\* the wait for the SP3 response packet ends
SsProcResp ==
    LET d == "I"
        st == SYS_STATUS[d]
        gs == sts_qual[d]
        got == RXFR \subseteq st
        ok == SsRespOk(st, gs)
        st1 == IF got THEN st \ ALL_RX_GOOD ELSE st
        stEnd == st1 \ (ALL_RX_GOOD \cup ALL_RX_TO \cup ALL_RX_ERR)
    IN  /\ Prog(d) = "ss_twr_initiator_sts_no_data"
        /\ pc[d] = "resp_wait"
        /\ st \cap (RXFR \cup ALL_RX_TO \cup ALL_ND_RX_ERR) # {}
        /\ status_reg' = Upd(status_reg, d, st)
        /\ goodSts' = Upd(goodSts, d, gs)
        /\ SYS_STATUS' = Upd(SYS_STATUS, d, IF ok THEN st1 ELSE stEnd)
        /\ rx_on' = Upd(rx_on, d, IF ok THEN TRUE ELSE rx_on[d])
        /\ pc' = Upd(pc, d, IF ok THEN "report_wait" ELSE "rng_delay")
        /\ outcome' = Upd(outcome, d,
              IF ok THEN "sp3_ok" ELSE IF got THEN "bad_sts" ELSE "rx_fail")
        /\ iter_ev' = Upd(iter_ev, d, iter_ev[d] \cup
              (IF ok THEN {"sp3_ok"} ELSE {"rx_rejected"}))
        /\ UNCHANGED <<envvars, rx_to, hw_rx, sts_qual, sts_ctr, sts_key_loads,
                       txq, resp_exp>>
        /\ UNCHANGED <<rx_buffer, ret, sts_op>>
        /\ UNCHANGED appvars
        /\ UNCHANGED mathvars
        /\ errors' = Upd(errors, d, 
              IF ok THEN errors[d]
              ELSE IF got THEN Inc(errors[d], "PREAMBLE_COUNT_ERR_IDX")
              ELSE SsRejectErrors(st, gs, errors[d]))
        /\ UNCHANGED <<aesvars, ackvars, sleepvars>>

\* the wait for the report frame ends
SsProcReport ==
    LET d == "I"
        st == SYS_STATUS[d]
        good == RXFCG \subseteq st
        fits == hw_rx[d].len <= RX_BUF_LEN_SS /\ hw_rx[d].len # 0
        buf == IF good /\ fits THEN hw_rx[d].kind ELSE rx_buffer[d]
        match == good /\ fits /\ buf = "report"
    IN  /\ Prog(d) = "ss_twr_initiator_sts_no_data"
        /\ pc[d] = "report_wait"
        /\ st \cap (RXFCG \cup ALL_RX_TO \cup ALL_RX_ERR) # {}
        /\ status_reg' = Upd(status_reg, d, st)
        /\ rx_buffer' = Upd(rx_buffer, d, buf)
        /\ SYS_STATUS' = Upd(SYS_STATUS, d, st \ (ALL_RX_GOOD \cup ALL_RX_TO \cup ALL_RX_ERR))
        /\ outcome' = Upd(outcome, d,
              IF match THEN "report_ok"
              ELSE IF good /\ fits THEN "bad_frame"
              ELSE IF good THEN "oversize" ELSE "rx_fail")
        /\ iter_ev' = Upd(iter_ev, d, iter_ev[d] \cup
              (IF match THEN {"dist"} ELSE {"rx_rejected"}))
        /\ pc' = Upd(pc, d, "rng_delay")
        /\ UNCHANGED <<envvars, rx_on, rx_to, hw_rx, sts_qual, sts_ctr, sts_key_loads,
                       txq, resp_exp>>
        /\ UNCHANGED <<goodSts, ret, sts_op>>
        /\ UNCHANGED appvars
        /\ UNCHANGED mathvars
        /\ errors' = Upd(errors, d, 
              IF match THEN errors[d]
              ELSE IF good /\ fits THEN Inc(errors[d], "BAD_FRAME_ERR_IDX")
              ELSE IF good THEN Inc(errors[d], "RTO_ERR_IDX")
              ELSE check_for_status_errors(st, errors[d]))
        /\ UNCHANGED <<aesvars, ackvars, sleepvars>>

(* -------------------------- simple_rx_pdoa ---------------------------- *)
\* if (dwt_readstsquality(&cpqual)): any non-zero score passes
PdoaStsOk(q) == q # 0

\* values dwt_readpdoa can return
PdoaVals == {-1, 1}

\* rx_ok_cb: called by the interrupt handler for a good frame
rx_ok_cb ==
    LET d == "R"
    IN  /\ Prog(d) = "simple_rx_pdoa"
        /\ RXFCG \subseteq SYS_STATUS[d]
        /\ SYS_STATUS' = Upd(SYS_STATUS, d, SYS_STATUS[d] \ ALL_RX_GOOD)
        /\ goodSts' = Upd(goodSts, d, sts_qual[d])
        /\ IF PdoaStsOk(sts_qual[d])
           THEN /\ \E v \in PdoaVals : pdoa_val' = v
                /\ iter_ev' = Upd(iter_ev, d, {"pdoa"})
                /\ outcome' = Upd(outcome, d, "pdoa_ok")
           ELSE /\ UNCHANGED pdoa_val
                /\ iter_ev' = Upd(iter_ev, d, {"rx_rejected"})
                /\ outcome' = Upd(outcome, d, "bad_sts")
        /\ rx_on' = Upd(rx_on, d, TRUE)
        /\ UNCHANGED <<envvars, rx_to, hw_rx, sts_qual, sts_ctr, sts_key_loads,
                       txq, resp_exp>>
        /\ UNCHANGED <<pc, status_reg, rx_buffer, ret, sts_op>>
        /\ UNCHANGED <<firstLoopFlag, messageFlag, loopCount, distance_array_index,
                       range_ok, last_pdoa_val>>
        /\ UNCHANGED mathvars
        /\ UNCHANGED <<errors, aesvars, ackvars, sleepvars>>

\* rx_err_cb: called by the interrupt handler for an RX error or timeout
rx_err_cb ==
    LET d == "R"
    IN  /\ Prog(d) = "simple_rx_pdoa"
        /\ ~(RXFCG \subseteq SYS_STATUS[d])
        /\ SYS_STATUS[d] \cap (ALL_RX_ERR \cup ALL_RX_TO) # {}
        /\ SYS_STATUS' = Upd(SYS_STATUS, d,
              SYS_STATUS[d] \ (ALL_RX_ERR \cup ALL_RX_TO \cup RXFR))
        /\ iter_ev' = Upd(iter_ev, d, {"rx_rejected"})
        /\ outcome' = Upd(outcome, d, "rx_fail")
        /\ rx_on' = Upd(rx_on, d, TRUE)
        /\ UNCHANGED <<envvars, rx_to, hw_rx, sts_qual, sts_ctr, sts_key_loads,
                       txq, resp_exp>>
        /\ UNCHANGED <<pc, status_reg, goodSts, rx_buffer, ret, sts_op>>
        /\ UNCHANGED appvars
        /\ UNCHANGED mathvars
        /\ UNCHANGED <<errors, aesvars, ackvars, sleepvars>>

\* body of the main loop: log a changed PDOA value
PdoaMain ==
    LET d == "R"
    IN  /\ Prog(d) = "simple_rx_pdoa"
        /\ pc[d] = "main"
        /\ last_pdoa_val # pdoa_val
        /\ last_pdoa_val' = pdoa_val
        /\ UNCHANGED <<envvars, hwvars, swvars>>
        /\ UNCHANGED <<firstLoopFlag, messageFlag, loopCount, distance_array_index,
                       range_ok, pdoa_val>>
        /\ UNCHANGED mathvars
        /\ UNCHANGED <<errors, aesvars, ackvars, sleepvars>>

(* ------------- frame check of ds_twr_initiator_sts / responder_sts ------ *)
\* slip: the sequence number is left in the buffer
ClearSn_Keep(buf) == buf

\* rx_buffer[ALL_MSG_SN_IDX] = 0
ClearSn(buf) == [buf EXCEPT ![ALL_MSG_SN_IDX + 1] = 0]

\* memcmp(rx_buffer, tmpl, ALL_MSG_COMMON_LEN) == 0
PrefixIs(buf, tmpl) == \A i \in 1..ALL_MSG_COMMON_LEN : buf[i] = tmpl[i]

\* initiator: the frame is read into rx_buffer, the sequence number cleared
\* and the prefix compared with the response template
InitStsDecode ==
    LET buf == ClearSn(rx_frame)
    IN  /\ app = "dec_init"
        /\ cpc = "decode"
        /\ rx_prefix' = buf
        /\ decoded' = IF PrefixIs(buf, rx_resp_msg) THEN "resp" ELSE "mismatch"
        /\ cpc' = "done"
        /\ UNCHANGED <<rx_frame, hw_ts, dx_time, dly, sep, ini, rsp,
                       tx_ts_fields, rx_ts_fields, ss>>
        /\ UNCHANGED <<envvars, hwvars, swvars, appvars>>
        /\ UNCHANGED <<errors, aesvars, ackvars, sleepvars>>

\* responder: the same with the poll template, then the final template
RespStsDecode ==
    LET buf == ClearSn(rx_frame)
    IN  /\ app = "dec_resp"
        /\ cpc = "decode"
        /\ rx_prefix' = buf
        /\ decoded' = IF PrefixIs(buf, rx_poll_msg) THEN "poll"
                      ELSE IF PrefixIs(buf, rx_final_msg) THEN "final"
                      ELSE "mismatch"
        /\ cpc' = "done"
        /\ UNCHANGED <<rx_frame, hw_ts, dx_time, dly, sep, ini, rsp,
                       tx_ts_fields, rx_ts_fields, ss>>
        /\ UNCHANGED <<envvars, hwvars, swvars, appvars>>
        /\ UNCHANGED <<errors, aesvars, ackvars, sleepvars>>

(* ------------------- timestamps of one DS-TWR exchange ------------------ *)
\* (ts + delay) >> 8, assigned to a uint32_t
DelayedTxTime(ts, D) == Shr8To32(Add64(ts, D))

\* slip: bit 0 of the programmed time is not masked
PredictedTxTs_NoMask(t) == Add64(Shl8(t), TX_ANT_DLY)

\* (((uint64_t)(t & 0xFFFFFFFEUL)) << 8) + TX_ANT_DLY
PredictedTxTs(t) == Add64(Shl8(ClearBit0(t)), TX_ANT_DLY)

\* the chip ignores bit 0 of the programmed time (512 dtu steps); the TX
\* timestamp it records is the start time plus the antenna delay
HwDelayedTxStamp(t) == Add40(Shl8(ClearBit0(t)), TX_ANT_DLY)

\* device time from the capture ts to the timestamp of the transmission
\* programmed with delay D
HwTurnaround(ts, D) == (D - (Add64(ts, D).lo % 512)) + TX_ANT_DLY

\* slip: response-RX and final-TX timestamps are written in each other's place
InitFinalFields_Swapped(poll_tx_ts, resp_rx_ts, final_tx_ts) ==
    final_msg_set_ts(poll_tx_ts) \o final_msg_set_ts(final_tx_ts)
        \o final_msg_set_ts(resp_rx_ts)

\* the three final_msg_set_ts calls: fields at indexes 10, 14 and 18
InitFinalFields(poll_tx_ts, resp_rx_ts, final_tx_ts) ==
    final_msg_set_ts(poll_tx_ts) \o final_msg_set_ts(resp_rx_ts)
        \o final_msg_set_ts(final_tx_ts)

\* responder, poll branch: the response is programmed; it is sent on time
\* and reaches the initiator
RespPollBranch ==
    LET poll_rx_ts == hw_ts["R"].rx
        t == DelayedTxTime(poll_rx_ts, dly.resp)
        turn == HwTurnaround(poll_rx_ts, dly.resp)
    IN  /\ app = "twr"
        /\ cpc = "poll_rx"
        /\ rsp' = [rsp EXCEPT !.poll_rx_ts = poll_rx_ts, !.resp_tx_time = t,
                              !.resp_tx_ts = PredictedTxTs(t)]
        /\ dx_time' = Upd(dx_time, "R", t)
        /\ hw_ts' = [hw_ts EXCEPT !["R"].tx = HwDelayedTxStamp(t),
                                  !["I"].rx = Add40(hw_ts["I"].tx, turn + 2 * sep.tof)]
        /\ sep' = [sep EXCEPT !.Db = turn, !.Ra = turn + 2 * sep.tof]
        /\ cpc' = "resp_rx"
        /\ UNCHANGED <<rx_frame, rx_prefix, decoded, dly, ini,
                       tx_ts_fields, rx_ts_fields, ss>>
        /\ UNCHANGED <<envvars, hwvars, swvars, appvars>>
        /\ UNCHANGED <<errors, aesvars, ackvars, sleepvars>>

\* initiator, response branch: the final is programmed and its timestamp
\* fields written; it is sent on time and reaches the responder
InitRespBranch ==
    LET poll_tx_ts == hw_ts["I"].tx
        resp_rx_ts == hw_ts["I"].rx
        t == DelayedTxTime(resp_rx_ts, dly.final)
        final_tx_ts == PredictedTxTs(t)
        turn == HwTurnaround(resp_rx_ts, dly.final)
        fields == InitFinalFields(poll_tx_ts, resp_rx_ts, final_tx_ts)
    IN  /\ app = "twr"
        /\ cpc = "resp_rx"
        /\ ini' = [poll_tx_ts |-> poll_tx_ts, resp_rx_ts |-> resp_rx_ts,
                   final_tx_time |-> t, final_tx_ts |-> final_tx_ts]
        /\ dx_time' = Upd(dx_time, "I", t)
        /\ tx_ts_fields' = fields
        /\ rx_ts_fields' = fields
        /\ hw_ts' = [hw_ts EXCEPT !["I"].tx = HwDelayedTxStamp(t),
                                  !["R"].rx = Add40(hw_ts["R"].tx, turn + 2 * sep.tof)]
        /\ sep' = [sep EXCEPT !.Da = turn, !.Rb = turn + 2 * sep.tof]
        /\ cpc' = "final_rx"
        /\ UNCHANGED <<rx_frame, rx_prefix, decoded, dly, rsp, ss>>
        /\ UNCHANGED <<envvars, hwvars, swvars, appvars>>
        /\ UNCHANGED <<errors, aesvars, ackvars, sleepvars>>

(* --------------------------- the estimators ----------------------------- *)
\* slip: the quotient is rounded down instead of toward zero
Int64OfQuot_Floor(n, d) == n \div d

\* (int64_t)(n / d) for doubles holding the integers n and d > 0: the
\* conversion drops the fraction
Int64OfQuot(n, d) == IF n >= 0 THEN n \div d ELSE -((-n) \div d)

\* (int64_t)((Ra * Rb - Da * Db) / (Ra + Rb + Da + Db))
TofDtu(Ra, Rb, Da, Db) == Int64OfQuot(Ra * Rb - Da * Db, Ra + Rb + Da + Db)

\* 0.0 / 0.0 is a NaN; its conversion to int64_t is undefined: builds give
\* 0 or the most negative value (INT64_MIN, held here as the most negative
\* integer of the model, which no quotient of the deltas reaches)
NaNBuilds == {"zero", "min"}
NaNAsInt64(build) == IF build = "zero" THEN 0 ELSE -2147483647

\* responder, final branch: timestamps read and extracted, the four deltas,
\* the time of flight, the distance stored in distance_array
RespFinalBranch ==
    LET resp_tx_ts == hw_ts["R"].tx
        final_rx_ts == hw_ts["R"].rx
        poll_tx_ts == final_msg_get_ts(TsField(rx_ts_fields, FINAL_MSG_POLL_TX_TS_IDX))
        resp_rx_ts == final_msg_get_ts(TsField(rx_ts_fields, FINAL_MSG_RESP_RX_TS_IDX))
        final_tx_ts == final_msg_get_ts(TsField(rx_ts_fields, FINAL_MSG_FINAL_TX_TS_IDX))
        poll_rx_ts_32 == Low32(rsp.poll_rx_ts)
        resp_tx_ts_32 == Low32(resp_tx_ts)
        final_rx_ts_32 == Low32(final_rx_ts)
        Ra == Dbl(Sub32(resp_rx_ts, poll_tx_ts))
        Rb == Dbl(Sub32(final_rx_ts_32, resp_tx_ts_32))
        Da == Dbl(Sub32(final_tx_ts, resp_rx_ts))
        Db == Dbl(Sub32(resp_tx_ts_32, poll_rx_ts_32))
    IN  /\ app \in TwrApps
        /\ cpc = "final_rx"
        /\ \E build \in (IF Ra + Rb + Da + Db = 0 THEN NaNBuilds ELSE {"any"}) :
            LET tof_dtu == IF Ra + Rb + Da + Db = 0 THEN NaNAsInt64(build)
                           ELSE TofDtu(Ra, Rb, Da, Db)
            IN
              rsp' = [rsp EXCEPT !.resp_tx_ts = resp_tx_ts, !.final_rx_ts = final_rx_ts,
                                 !.poll_tx_ts = poll_tx_ts, !.resp_rx_ts = resp_rx_ts,
                                 !.final_tx_ts = final_tx_ts,
                                 !.Ra = Ra, !.Rb = Rb, !.Da = Da, !.Db = Db,
                                 !.tof_dtu = tof_dtu]
        /\ distance_array_index' = distance_array_index + 1
        /\ cpc' = "done"
        /\ UNCHANGED <<rx_frame, rx_prefix, decoded, hw_ts, dx_time, dly, sep, ini,
                       tx_ts_fields, rx_ts_fields, ss>>
        /\ UNCHANGED <<envvars, hwvars, swvars>>
        /\ UNCHANGED <<firstLoopFlag, messageFlag, loopCount, range_ok,
                       pdoa_val, last_pdoa_val>>
        /\ UNCHANGED <<errors, aesvars, ackvars, sleepvars>>

(* ss_twr_initiator_sts_no_data *)
REPORT_MSG_POLL_RX_TS_IDX == 10
REPORT_MSG_RESP_TX_TS_IDX == 14
\* resp_msg_get_ts(): *ts += ts_field[i] << (i * 8)
resp_msg_get_ts(f) == U32(f[3] + f[4] * 256, f[1] + f[2] * 256)

\* spacing of the float values around a: 24 bits of precision
RECURSIVE FloatUlp(_)
FloatUlp(a) == IF a < 16777216 THEN 1 ELSE 2 * FloatUlp(a \div 2)

\* (float)x: x rounded to the nearest float, ties to the even one
ToFloat(x) ==
    LET a == IF x < 0 THEN -x ELSE x
        u == FloatUlp(a)
        q == a \div u
        r == a % u
        m == (IF 2 * r > u \/ (2 * r = u /\ q % 2 = 1) THEN q + 1 ELSE q) * u
    IN  IF x < 0 THEN -m ELSE m

\* twice (rtd_init - rtd_resp * (1 - clockOffsetRatio)) / 2.0 for a clock
\* offset reading of 0: clockOffsetRatio is a float, so the product and the
\* difference are float operations; the division by 2.0 is exact
SsTofX2(rtd_init, rtd_resp) == ToFloat(ToFloat(rtd_init) - ToFloat(rtd_resp))

\* report branch: timestamps read and extracted, round trip and reply time,
\* time of flight
SsComputeTof ==
    LET poll_tx_ts == Low32(hw_ts["I"].tx)
        resp_rx_ts == Low32(hw_ts["I"].rx)
        poll_rx_ts == resp_msg_get_ts(TsField(rx_ts_fields, REPORT_MSG_POLL_RX_TS_IDX))
        resp_tx_ts == resp_msg_get_ts(TsField(rx_ts_fields, REPORT_MSG_RESP_TX_TS_IDX))
        rtd_init == Int32(Sub32(resp_rx_ts, poll_tx_ts))
        rtd_resp == Int32(Sub32(resp_tx_ts, poll_rx_ts))
    IN  /\ app = "ss_calc"
        /\ cpc = "report_rx"
        /\ ss' = [poll_tx_ts |-> poll_tx_ts, resp_rx_ts |-> resp_rx_ts,
                  poll_rx_ts |-> poll_rx_ts, resp_tx_ts |-> resp_tx_ts,
                  clockoffset |-> 0, rtd_init |-> rtd_init, rtd_resp |-> rtd_resp,
                  tof_x2 |-> SsTofX2(rtd_init, rtd_resp)]
        /\ cpc' = "done"
        /\ UNCHANGED <<rx_frame, rx_prefix, decoded, hw_ts, dx_time, dly, sep, ini, rsp,
                       tx_ts_fields, rx_ts_fields>>
        /\ UNCHANGED <<envvars, hwvars, swvars, appvars>>
        /\ UNCHANGED <<errors, aesvars, ackvars, sleepvars>>


(* ------------------------- AES frame security -------------------------- *)
\* rx_aes_802_15_8(frame_length, aes_job, payload, payload_load_size, core_type):
\* the header is read from the RX buffer, the job filled in and run by the
\* AES core, which returns one of the values of core
rx_aes_802_15_8(frame_length, payload_load_size, core) ==
    LET payload_len == RxAesPayloadLen(frame_length, aes_job.mic_size)
        hdr == aes_hw["R"].rx.hdr
    IN  /\ aes_args' = [frame_length |-> frame_length,
                        payload_load_size |-> payload_load_size]
        /\ IF RxAesLenOk(payload_len, payload_load_size)
           THEN \E st \in core :
                  /\ aes_trace' = <<"dwt_readrxdata", "dwt_do_aes">>
                  /\ aes_job' = [aes_job EXCEPT !.nonce = RxNonce(hdr),
                                                !.header_len = HEADER_LEN,
                                                !.payload_len = payload_len,
                                                !.header = "NULL",
                                                !.payload = "payload"]
                  /\ aes_status' = st
                  /\ payload' = IF RxClassify(st) = "AES_RES_OK"
                                THEN "plaintext" ELSE "undefined"
                  /\ aes_results' = RxClassify(st)
           ELSE /\ aes_trace' = << >>
                /\ aes_results' = "AES_RES_ERROR_FRAME"
                /\ UNCHANGED <<aes_job, aes_status, payload>>

\* one call of rx_aes_802_15_8 with the arguments chosen at the start
RxAesCall ==
    /\ app = "aes_fn"
    /\ apc["R"] = "call"
    /\ rx_aes_802_15_8(aes_args.frame_length, aes_args.payload_load_size, AesStatus)
    /\ apc' = Upd(apc, "R", "returned")
    /\ UNCHANGED <<PN, header, nonce, tx_status, tx_outcome, aes_air, aes_hw>>
    /\ UNCHANGED <<envvars, hwvars, swvars, appvars, mathvars, errors, ackvars, sleepvars>>

\* simple_tx_aes, loop body up to dwt_starttx: the packet number is written
\* into the nonce and the header, the AES core encrypts into the TX buffer,
\* the status is classified
SimpleTxAesLoop ==
    LET d == "I"
        hdr == [header EXCEPT !.nonce = PnBytes(PN)]
        nc == PnBytes(PN) \o SubSeq(nonce, 7, 12)
    IN  /\ app = "aes"
        /\ apc[d] = "loop"
        /\ header.seq < MaxAesFrames
        /\ header' = hdr
        /\ nonce' = nc
        /\ \E st \in AesStatusLoop :
             /\ tx_status' = st
             /\ tx_outcome' = TxLog(st)
             /\ IF TxLog(st) = "AES TX OK"
                THEN /\ aes_hw' = [aes_hw EXCEPT ![d].txq =
                                      [len |-> TX_AES_FRAME_LEN, hdr |-> hdr,
                                       sent_nonce |-> nc]]
                     /\ apc' = Upd(apc, d, "txwait")
                ELSE /\ UNCHANGED aes_hw
                     /\ apc' = Upd(apc, d, "exit")
        /\ UNCHANGED <<PN, aes_air, aes_args, aes_job, payload, aes_status,
                       aes_results, aes_trace>>
        /\ UNCHANGED <<envvars, hwvars, swvars, appvars, mathvars, errors, ackvars, sleepvars>>

\* the started transmission completes: TXFRS is raised and the frame is on
\* its way when the receiver of the peer is on
HwAesTxDone ==
    LET d == "I"
    IN  /\ app = "aes"
        /\ aes_hw[d].txq # NoAesFrame
        /\ aes_air' = IF aes_hw["R"].rx_on THEN aes_hw[d].txq ELSE aes_air
        /\ aes_hw' = [aes_hw EXCEPT ![d].txq = NoAesFrame,
                                    ![d].status = aes_hw[d].status \cup TXFRS]
        /\ UNCHANGED <<apc, PN, header, nonce, tx_status, tx_outcome, aes_args,
                       aes_job, payload, aes_status, aes_results, aes_trace>>
        /\ UNCHANGED <<envvars, hwvars, swvars, appvars, mathvars, errors, ackvars, sleepvars>>

\* simple_tx_aes: TXFRS seen and cleared, packet number and sequence number
\* advanced, Sleep(500)
SimpleTxAesTxWait ==
    LET d == "I"
    IN  /\ app = "aes"
        /\ apc[d] = "txwait"
        /\ TXFRS \subseteq aes_hw[d].status
        /\ aes_hw' = [aes_hw EXCEPT ![d].status = aes_hw[d].status \ TXFRS]
        /\ PN' = PnNext(PN)
        /\ header' = [header EXCEPT !.seq = (header.seq + 1) % 256]
        /\ apc' = Upd(apc, d, "loop")
        /\ UNCHANGED <<nonce, tx_status, tx_outcome, aes_air, aes_args,
                       aes_job, payload, aes_status, aes_results, aes_trace>>
        /\ UNCHANGED <<envvars, hwvars, swvars, appvars, mathvars, errors, ackvars, sleepvars>>

\* simple_rx_aes: dwt_rxenable(DWT_START_RX_IMMEDIATE)
SimpleRxAesEnable ==
    LET d == "R"
    IN  /\ app = "aes"
        /\ apc[d] = "loop"
        /\ aes_hw' = [aes_hw EXCEPT ![d].rx_on = TRUE]
        /\ apc' = Upd(apc, d, "rx_wait")
        /\ UNCHANGED <<PN, header, nonce, tx_status, tx_outcome, aes_air, aes_args,
                       aes_job, payload, aes_status, aes_results, aes_trace>>
        /\ UNCHANGED <<envvars, hwvars, swvars, appvars, mathvars, errors, ackvars, sleepvars>>

\* the enabled receiver gets the frame in flight, a frame of another
\* sender, or a reception error
HwAesRx ==
    LET d == "R"
    IN  /\ app = "aes"
        /\ aes_hw[d].rx_on
        /\ \/ /\ aes_air # NoAesFrame
              /\ aes_hw' = [aes_hw EXCEPT ![d].rx_on = FALSE, ![d].rx = aes_air,
                               ![d].status = aes_hw[d].status \cup RXFR \cup RXFCG]
              /\ aes_air' = NoAesFrame
           \/ \E f \in OtherAesFrames :
                /\ aes_hw' = [aes_hw EXCEPT ![d].rx_on = FALSE, ![d].rx = f,
                                 ![d].status = aes_hw[d].status \cup RXFR \cup RXFCG]
                /\ aes_air' = aes_air
           \/ /\ aes_hw' = [aes_hw EXCEPT ![d].rx_on = FALSE,
                               ![d].status = aes_hw[d].status \cup {"RXFCE"}]
              /\ aes_air' = aes_air
        /\ UNCHANGED <<apc, PN, header, nonce, tx_status, tx_outcome, aes_args,
                       aes_job, payload, aes_status, aes_results, aes_trace>>
        /\ UNCHANGED <<envvars, hwvars, swvars, appvars, mathvars, errors, ackvars, sleepvars>>

\* simple_rx_aes: the status wait ends.  A good frame is handed to
\* rx_aes_802_15_8 and the loop is left when that does not return AES_RES_OK;
\* otherwise the event is cleared
SimpleRxAesProc ==
    LET d == "R"
        st == aes_hw[d].status
        finfo16 == aes_hw[d].rx.len
    IN  /\ app = "aes"
        /\ apc[d] = "rx_wait"
        /\ st \cap (RXFCG \cup ALL_RX_ERR) # {}
        /\ IF RXFCG \subseteq st
           THEN /\ rx_aes_802_15_8(BitAnd(finfo16, RX_FINFO_RXFLEN_BIT_MASK),
                                   RX_PAYLOAD_SIZE, AesStatusLoop)
                /\ IF aes_results' # "AES_RES_OK"
                   THEN /\ apc' = Upd(apc, d, "exit")
                        /\ UNCHANGED aes_hw
                   ELSE /\ apc' = Upd(apc, d, "loop")
                        /\ aes_hw' = [aes_hw EXCEPT ![d].status = st \ RXFCG]
           ELSE /\ aes_hw' = [aes_hw EXCEPT ![d].status = st \ ALL_RX_ERR]
                /\ apc' = Upd(apc, d, "loop")
                /\ UNCHANGED <<aes_args, aes_job, payload, aes_status,
                               aes_results, aes_trace>>
        /\ UNCHANGED <<PN, header, nonce, tx_status, tx_outcome, aes_air>>
        /\ UNCHANGED <<envvars, hwvars, swvars, appvars, mathvars, errors, ackvars, sleepvars>>

(* ----------------------------- ack_data_tx ----------------------------- *)
\* top of the loop: the frame is written and its transmission started with
\* DWT_RESPONSE_EXPECTED
AckTxStart ==
    /\ app = "ack_tx"
    /\ ack_pc = "loop"
    /\ Int32(tx_frame_ack_nb) < MaxAckFrames
    /\ Int32(tx_frame_retry_nb) < MaxAckFrames
    /\ ack_hw' = [ack_hw EXCEPT !.txq = <<tx_msg_sn>>]
    /\ ack_pc' = "rx_wait"
    /\ UNCHANGED <<tx_msg_sn, ack_rx_buffer, frame_len, tx_frame_acked,
                   tx_frame_nb, tx_frame_ack_nb, tx_frame_retry_nb>>
    /\ UNCHANGED <<envvars, hwvars, swvars, appvars, mathvars, errors, aesvars, sleepvars>>

\* the transmission completes and the receiver turns on
HwAckTxDone ==
    /\ app = "ack_tx"
    /\ ack_hw.txq # << >>
    /\ ack_hw' = [ack_hw EXCEPT !.txq = << >>, !.rx_on = TRUE,
                                !.status = ack_hw.status \cup TXFRS]
    /\ UNCHANGED <<ack_pc, tx_msg_sn, ack_rx_buffer, frame_len, tx_frame_acked,
                   tx_frame_nb, tx_frame_ack_nb, tx_frame_retry_nb>>
    /\ UNCHANGED <<envvars, hwvars, swvars, appvars, mathvars, errors, aesvars, sleepvars>>

\* the enabled receiver gets a frame, an error, or its timeout expires
HwAckRx ==
    /\ app = "ack_tx"
    /\ ack_hw.rx_on
    /\ \/ \E f \in AckRxFrames(tx_msg_sn) :
             ack_hw' = [ack_hw EXCEPT !.rx_on = FALSE, !.rx = f,
                           !.status = ack_hw.status \cup RXFR \cup RXFCG]
       \/ \E e \in ALL_RX_ERR :
             ack_hw' = [ack_hw EXCEPT !.rx_on = FALSE,
                           !.status = ack_hw.status \cup {e}]
       \/ /\ ack_hw.rx_to # 0
          /\ ack_hw' = [ack_hw EXCEPT !.rx_on = FALSE,
                           !.status = ack_hw.status \cup ALL_RX_TO]
    /\ UNCHANGED <<ack_pc, tx_msg_sn, ack_rx_buffer, frame_len, tx_frame_acked,
                   tx_frame_nb, tx_frame_ack_nb, tx_frame_retry_nb>>
    /\ UNCHANGED <<envvars, hwvars, swvars, appvars, mathvars, errors, aesvars, sleepvars>>

\* slip: every iteration counts as a retransmission
AckIsRetry_Always(flag) == TRUE

\* if (!tx_frame_acked)
AckIsRetry(flag) == flag = 0

\* the status wait ends: the rest of the loop body
AckProcRx ==
    LET st == ack_hw.status
        good == RXFCG \subseteq st
        len == BitAnd(ack_hw.rx.len, RX_FINFO_RXFLEN_BIT_MASK)
        read == good /\ len = ACK_FRAME_LEN
        buf == IF read THEN ack_hw.rx.bytes ELSE ack_rx_buffer
        acked == read /\ IsExpectedAck(buf, tx_msg_sn)
        flag == IF acked THEN 1 ELSE tx_frame_acked
        retry == AckIsRetry(flag)
    IN  /\ app = "ack_tx"
        /\ ack_pc = "rx_wait"
        /\ st \cap (RXFCG \cup ALL_RX_TO \cup ALL_RX_ERR) # {}
        /\ ack_hw' = [ack_hw EXCEPT !.status =
                         IF good THEN st \ RXFCG ELSE st \ (ALL_RX_TO \cup ALL_RX_ERR)]
        /\ frame_len' = IF good THEN len ELSE frame_len
        /\ ack_rx_buffer' = buf
        /\ tx_msg_sn' = IF acked THEN (tx_msg_sn + 1) % 256 ELSE tx_msg_sn
        /\ tx_frame_ack_nb' = IF acked THEN Inc32(tx_frame_ack_nb)
                                        ELSE tx_frame_ack_nb
        /\ tx_frame_nb' = Inc32(tx_frame_nb)
        /\ tx_frame_retry_nb' = IF retry THEN Inc32(tx_frame_retry_nb)
                                          ELSE tx_frame_retry_nb
        /\ tx_frame_acked' = IF retry THEN flag ELSE 0
        /\ ack_pc' = "loop"
        /\ UNCHANGED <<envvars, hwvars, swvars, appvars, mathvars, errors, aesvars, sleepvars>>

(* --------------------------- tx_timed_sleep --------------------------- *)
\* top of the loop: the blink is written and its transmission started
TxSleepStart ==
    /\ app = "sleep"
    /\ sl_pc = "loop"
    /\ sl_dev' = [sl_dev EXCEPT !.state = "tx"]
    /\ sl_pc' = "tx_wait"
    /\ UNCHANGED <<sleeping, blink_sn>>
    /\ UNCHANGED <<envvars, hwvars, swvars, appvars, mathvars, errors, aesvars, ackvars>>

\* the chip has sent the frame
HwSleepTxDone ==
    /\ app = "sleep"
    /\ sl_dev.state = "tx"
    /\ sl_dev' = [sl_dev EXCEPT !.state = "idle", !.txfrs = TRUE]
    /\ UNCHANGED <<sl_pc, sleeping, blink_sn>>
    /\ UNCHANGED <<envvars, hwvars, swvars, appvars, mathvars, errors, aesvars, ackvars>>

\* TXFRS is seen and cleared, then dwt_entersleep(DWT_DW_IDLE)
TxSleepEnterSleep ==
    /\ app = "sleep"
    /\ sl_pc = "tx_wait"
    /\ sl_dev.txfrs
    /\ sl_dev' = [sl_dev EXCEPT !.txfrs = FALSE, !.state = "sleep"]
    /\ sl_pc' = "set_sleeping"
    /\ UNCHANGED <<sleeping, blink_sn>>
    /\ UNCHANGED <<envvars, hwvars, swvars, appvars, mathvars, errors, aesvars, ackvars>>

\* sleeping = 1;
TxSleepSetFlag ==
    /\ app = "sleep"
    /\ sl_pc = "set_sleeping"
    /\ sleeping' = 1
    /\ sl_pc' = "spin"
    /\ UNCHANGED <<sl_dev, blink_sn>>
    /\ UNCHANGED <<envvars, hwvars, swvars, appvars, mathvars, errors, aesvars, ackvars>>

\* while (sleeping) is left; the sequence number is incremented
TxSleepWaitWake ==
    /\ app = "sleep"
    /\ sl_pc = "spin"
    /\ sleeping = 0
    /\ blink_sn' = (blink_sn + 1) % 256
    /\ sl_pc' = "loop"
    /\ UNCHANGED <<sleeping, sl_dev>>
    /\ UNCHANGED <<envvars, hwvars, swvars, appvars, mathvars, errors, aesvars, ackvars>>

\* the sleep timer expires: the chip wakes up and raises SPI ready
HwSleepWake ==
    /\ app = "sleep"
    /\ sl_dev.state = "sleep"
    /\ sl_dev' = [sl_dev EXCEPT !.state = "idle", !.irq = TRUE]
    /\ UNCHANGED <<sl_pc, sleeping, blink_sn>>
    /\ UNCHANGED <<envvars, hwvars, swvars, appvars, mathvars, errors, aesvars, ackvars>>

\* the interrupt is served: IDLE_RC is awaited, the configuration restored
\* and sleeping cleared.  It preempts app_main between any two statements.
spi_ready_cb ==
    /\ app = "sleep"
    /\ sl_dev.irq
    /\ sl_dev' = [sl_dev EXCEPT !.irq = FALSE]
    /\ sleeping' = 0
    /\ UNCHANGED <<sl_pc, blink_sn>>
    /\ UNCHANGED <<envvars, hwvars, swvars, appvars, mathvars, errors, aesvars, ackvars>>

(* ------------------------- the specification -------------------------- *)
Next ==
    \/ \E d \in Dev : HwTxDone(d)
    \/ \E d \in Dev : HwRxAir(d)
    \/ \E d \in Dev : HwRxTimeoutPair(d)
    \/ \E d \in Dev : HwRxEnv(d)
    \/ AirLose
    \/ AirMiss
    \/ Stabilise
    \/ InitStsLoopTop
    \/ InitStsPollTxWait
    \/ InitStsProcRx
    \/ InitStsFinalTxWait
    \/ RngDelay
    \/ RespStsLoopTop
    \/ RespStsProcRx
    \/ RespStsTxWait
    \/ InitLoopTop
    \/ InitProcRx
    \/ InitFinalTxWait
    \/ SdcInitLoopTop
    \/ SdcInitProcRx
    \/ SdcRespLoopTop
    \/ SdcRespProcPoll
    \/ SdcRespProcFinal
    \/ SsLoopTop
    \/ SsPollTxWait
    \/ SsProcResp
    \/ SsProcReport
    \/ rx_ok_cb
    \/ rx_err_cb
    \/ PdoaMain
    \/ InitStsDecode
    \/ RespStsDecode
    \/ RespPollBranch
    \/ InitRespBranch
    \/ RespFinalBranch
    \/ SsComputeTof
    \/ RxAesCall
    \/ SimpleTxAesLoop
    \/ HwAesTxDone
    \/ SimpleTxAesTxWait
    \/ SimpleRxAesEnable
    \/ HwAesRx
    \/ SimpleRxAesProc
    \/ AckTxStart
    \/ HwAckTxDone
    \/ HwAckRx
    \/ AckProcRx
    \/ TxSleepStart
    \/ HwSleepTxDone
    \/ TxSleepEnterSleep
    \/ TxSleepSetFlag
    \/ TxSleepWaitWake
    \/ HwSleepWake
    \/ spi_ready_cb

Spec == Init /\ [][Next]_vars

(* Fairness the scheduling gives in the two-party system: each CPU keeps   *)
(* executing its program, a started transmission completes, a frame in    *)
(* flight reaches an enabled receiver or passes a disabled one, an armed   *)
(* timeout expires.  Loss and late starts are never forced.                *)
ProgI == \/ InitStsLoopTop \/ InitStsPollTxWait \/ InitStsProcRx
         \/ InitStsFinalTxWait \/ RngDelay
ProgR == RespStsLoopTop \/ RespStsProcRx \/ RespStsTxWait

FairSpec ==
    /\ Spec
    /\ WF_vars(ProgI)
    /\ WF_vars(ProgR)
    /\ \A d \in Dev : WF_vars(HwTxDone(d)) /\ WF_vars(HwRxAir(d))
                      /\ WF_vars(HwRxTimeoutPair(d))
    /\ WF_vars(AirMiss)

(* Fairness for an initiator that runs against an arbitrary environment:   *)
(* its CPU keeps executing the program, and a status wait entered with the *)
(* receiver enabled gets one of the events the receiver can raise.         *)
ProgInitiators == \/ InitLoopTop \/ InitProcRx \/ InitFinalTxWait
                  \/ SdcInitLoopTop \/ SdcInitProcRx
                  \/ SsLoopTop \/ SsPollTxWait \/ SsProcResp \/ SsProcReport

InitiatorFairSpec ==
    /\ FairSpec
    /\ WF_vars(ProgInitiators)
    /\ WF_vars(HwRxEnv("I"))

(* tx_timed_sleep: the CPU keeps executing app_main, a started             *)
(* transmission completes, the sleep timer expires, a raised interrupt is  *)
(* served.                                                                 *)
TxSleepMain == \/ TxSleepStart \/ TxSleepEnterSleep \/ TxSleepSetFlag
               \/ TxSleepWaitWake

SleepFairSpec ==
    /\ Spec
    /\ WF_vars(TxSleepMain)
    /\ WF_vars(HwSleepTxDone)
    /\ WF_vars(HwSleepWake)
    /\ WF_vars(spi_ready_cb)

(* =============================== claims =============================== *)
Initiators == {"ds_twr_initiator_sts", "ds_twr_initiator", "ds_twr_sts_sdc_initiator"}
LateAbortProgs == Initiators \cup {"ds_twr_sts_sdc_responder"}
AbortPc(d) == IF Prog(d) \in Initiators THEN "rng_delay" ELSE "loop"

\* C1: when the delayed dwt_starttx fails, the initiators and the STS-SDC
\* responder start no transmission and enter no TXFRS or RX wait of that
\* exchange: the initiators go to the inter-ranging delay and then send a
\* new poll, the STS-SDC responder goes back to enabling its receiver.
C1_Step(d) ==
    /\ ("late" \in iter_ev'[d] /\ "late" \notin iter_ev[d])
          => /\ ret'[d] = DWT_ERROR
             /\ pc'[d] = AbortPc(d)
             /\ txq'[d] = NoFrame
    /\ (ret'[d] = DWT_ERROR /\ pc[d] \in {"rx_wait", "poll_wait"} /\ pc'[d] # pc[d]
          /\ outcome'[d] \in {"late", "tx_started"})
          => "late" \in iter_ev'[d]
    /\ "late" \in iter_ev'[d] => pc'[d] \in {"rng_delay", "loop"}
    /\ ("late" \in iter_ev[d] /\ pc'[d] # pc[d])
          => \/ pc[d] = "rng_delay" /\ pc'[d] = "loop"
             \/ /\ pc[d] = "loop"
                /\ IF Prog(d) \in Initiators
                   THEN txq'[d].kind = "poll"
                   ELSE rx_on'[d] /\ pc'[d] = "poll_wait"

C1_LateStartAbort ==
    [][\A d \in Dev : Prog(d) \in LateAbortProgs => C1_Step(d)]_vars

C1_Witness ==
    /\ app = "init_sts"
    /\ outcome["I"] = "late"
    /\ pc["I"] = "poll_txwait"

\* C2: in ds_twr_responder_sts, after a late response the responder never
\* waits for a frame with the receiver off.
C2_NeverWaitsReceiverOff ==
    (Prog("R") = "ds_twr_responder_sts" /\ pc["R"] = "rx_wait" /\ outcome["R"] = "late")
       => \/ rx_on["R"]
          \/ SYS_STATUS["R"] \cap (RXFCG \cup ALL_RX_TO \cup ALL_RX_ERR) # {}

\* C3: in ds_twr_initiator_sts and ds_twr_responder_sts a reply is started
\* or a distance computed only in an iteration whose reception had RXFCG
\* set and an STS score of 0 or more.
C3_StsGating ==
    \A d \in Dev :
       (Prog(d) \in {"ds_twr_initiator_sts", "ds_twr_responder_sts"}
          /\ iter_ev[d] \cap {"final", "resp", "dist"} # {})
       => RXFCG \subseteq status_reg[d] /\ goodSts[d] >= 0

C3_Witness ==
    /\ app = "resp_sts"
    /\ "dist" \in iter_ev["R"]
    /\ goodSts["R"] = 0

\* C4: in the STS-SDC examples and simple_rx_pdoa a frame with good CRC
\* is processed further exactly when its STS score is 0 or more.
SdcGatePassed == {"tx_started", "late", "bad_frame", "final_ok", "pdoa_ok"}
C4_SdcStsGating ==
    \A d \in Dev :
       Prog(d) \in {"ds_twr_sts_sdc_initiator", "ds_twr_sts_sdc_responder", "simple_rx_pdoa"}
       => /\ outcome[d] \in SdcGatePassed => goodSts[d] >= 0
          /\ outcome[d] = "bad_sts" => goodSts[d] < 0

\* C5: in ds_twr_responder_sts no STS load is done while messageFlag is 1,
\* and messageFlag goes back to 0 only when a reception is classified as
\* an accepted final or as an error.
ExchangeEnd == {"final_ok", "bad_frame", "oversize", "rx_fail"}
C5_ResyncSuppressed ==
    [][Prog("R") = "ds_twr_responder_sts" =>
         /\ (pc["R"] = "loop" /\ pc'["R"] = "rx_wait" /\ messageFlag = 1)
               => sts_op'["R"] = "none" /\ sts_ctr'["R"] = sts_ctr["R"]
                  /\ sts_key_loads'["R"] = sts_key_loads["R"]
         /\ (messageFlag = 1 /\ messageFlag' = 0)
               => pc["R"] = "rx_wait" /\ outcome'["R"] \in ExchangeEnd]_vars

C5_Witness ==
    /\ app = "resp_sts"
    /\ messageFlag = 1
    /\ pc["R"] = "rx_wait"
    /\ sts_op["R"] = "none"
    /\ sts_ctr["R"] # STS_IV0

\* C6: in ds_twr_responder_sts an iteration that ends with a bad frame, an
\* oversize frame, an RX error, an RX timeout or a bad STS score leaves
\* messageFlag at 0, and the next iteration reloads the STS counter and
\* enables the receiver before it waits.
ErrorEnd == {"bad_frame", "oversize", "rx_fail"}
C6_ErrorRearmsResync ==
    [][Prog("R") = "ds_twr_responder_sts" =>
         /\ (pc["R"] = "rx_wait" /\ pc'["R"] # "rx_wait" /\ outcome'["R"] \in ErrorEnd)
               => messageFlag' = 0 /\ pc'["R"] = "loop"
         /\ (pc["R"] = "loop" /\ outcome["R"] \in ErrorEnd /\ pc'["R"] = "rx_wait")
               => /\ sts_op'["R"] = "ctr"
                  /\ sts_ctr'["R"] = STS_IV0
                  /\ rx_on'["R"]]_vars

C6_Witness ==
    /\ app = "resp_sts"
    /\ pc["R"] = "rx_wait"
    /\ outcome["R"] = "oversize"
    /\ sts_op["R"] = "ctr"
    /\ "poll_ok" \notin iter_ev["R"]
    /\ rx_on["R"]

\* C7: the key and the full IV are configured exactly once, in the first
\* exchange; every later exchange start rewrites only the low 32 bits of
\* the IV; the responder loads only with messageFlag = 0.
StsKeyProgs == {"ds_twr_initiator_sts", "ss_twr_initiator_sts_no_data", "ds_twr_responder_sts"}
C7_Step(d) ==
    /\ sts_key_loads'[d] <= 1
    /\ pc'[d] # "loop" => sts_key_loads'[d] = 1
    /\ (pc[d] = "loop" /\ pc'[d] \notin {"loop", "done"})
          => /\ sts_key_loads[d] = 0 => sts_op'[d] = "full"
             /\ (sts_key_loads[d] = 1 /\ (d = "R" => messageFlag = 0))
                   => sts_op'[d] = "ctr" /\ sts_ctr'[d] = STS_IV0
             /\ (d = "R" /\ messageFlag = 1) => sts_op'[d] = "none"

PlainCounter(f) == IF Len(f.data) >= 1 THEN f.data[1] ELSE -1
C8_PlaintextCounter ==
    app = "pair" =>
       /\ air.kind = "poll" => PlainCounter(air) = air.sts
       /\ (pc["R"] = "rx_wait" /\ rx_on["R"] /\ sts_op["R"] = "ctr"
             /\ outcome["R"] = "rx_fail" /\ hw_rx["R"].kind = "poll"
             /\ RXFCG \subseteq status_reg["R"] /\ goodSts["R"] < 0)
            => sts_ctr["R"] = PlainCounter(hw_rx["R"])

\* C9: in the two-party system, once the channel is stable and while the
\* responder loop can still start an exchange, the responder eventually
\* accepts a final and computes a distance.
C9_SelfHealing ==
    (app = "pair" /\ stable /\ pc["R"] # "done" /\ loopCount < RANGE_COUNT)
       ~> ("dist" \in iter_ev["R"])

\* C10: every DS-TWR initiator starts a final only in an iteration in which
\* it sent the poll and then received and validated a response, and it
\* starts a poll only when nothing of the previous exchange is pending.
C10_InitiatorOrdering ==
    \A d \in Dev :
       Prog(d) \in Initiators =>
          /\ "final" \in iter_ev[d] => {"poll", "resp_ok"} \subseteq iter_ev[d]
          /\ txq[d].kind = "poll" => iter_ev[d] = {"poll"}


(* ---------------------------------------------------------------------- *)
\* C11: a responder computes a distance only from a Final that follows, in
\* the same exchange, a valid Poll and a transmitted Response: the step that
\* produces a distance is taken with messageFlag = 1 in ds_twr_responder_sts
\* and after the iteration's response in ds_twr_sts_sdc_responder; a Final
\* received while a Poll is awaited never produces one.
C11_FinalNeedsResponse ==
    [][("dist" \in iter_ev'["R"] /\ "dist" \notin iter_ev["R"])
         => /\ Prog("R") = "ds_twr_responder_sts" => messageFlag = 1
            /\ Prog("R") = "ds_twr_sts_sdc_responder" => "resp" \in iter_ev["R"]]_vars


\* C12: in ds_twr_responder_sts, once the Response has been sent
\* (messageFlag = 1) no further Poll is accepted and no further Response is
\* started until the exchange has ended and the exchange-start step has run
\* again: no step taken with messageFlag = 1 accepts a Poll.
C12_NoSecondPoll ==
    [][(Prog("R") = "ds_twr_responder_sts" /\ messageFlag = 1)
         => ("poll_ok" \in iter_ev'["R"] => "poll_ok" \in iter_ev["R"])]_vars


\* C14: in ds_twr_initiator_sts and ds_twr_responder_sts a frame with good
\* CRC and good STS score that fits the buffer and matches no expected
\* message is counted as a bad frame and nothing is transmitted in that
\* iteration; the initiator goes to the inter-ranging delay and then sends a
\* new poll, the responder clears messageFlag, goes to the loop top and
\* enables its receiver before it waits for a poll.
BadFrameProgs == {"ds_twr_initiator_sts", "ds_twr_responder_sts"}
ExpectedKinds(d) == IF Prog(d) = "ds_twr_initiator_sts" THEN {"resp"} ELSE {"poll", "final"}
C14_Step(d) ==
    /\ (/\ pc[d] = "rx_wait" /\ pc'[d] # "rx_wait"
        /\ RXFCG \subseteq status_reg'[d] /\ goodSts'[d] >= 0
        /\ hw_rx[d].len <= RX_BUF_LEN_STS
        /\ hw_rx[d].kind \notin ExpectedKinds(d))
          => /\ outcome'[d] = "bad_frame"
             /\ txq'[d] = NoFrame
             /\ iter_ev'[d] \cap {"final", "resp", "dist"} = {}
             /\ IF d = "I" THEN pc'[d] = "rng_delay"
                ELSE pc'[d] = "loop" /\ messageFlag' = 0
    /\ (outcome[d] = "bad_frame" /\ pc[d] = "rng_delay" /\ pc'[d] # pc[d])
          => pc'[d] = "loop"
    /\ (outcome[d] = "bad_frame" /\ pc[d] = "loop" /\ pc'[d] # pc[d])
          => IF d = "I" THEN txq'[d].kind = "poll"
             ELSE pc'[d] \in {"rx_wait", "done"}
                  /\ (pc'[d] = "rx_wait" => rx_on'[d] /\ sts_ctr'[d] = STS_IV0)

IdBytes == (1..ALL_MSG_COMMON_LEN) \ {ALL_MSG_SN_IDX + 1}
SameId(f, tmpl) == \A i \in IdBytes : f[i] = tmpl[i]
C13_FrameIdentity ==
    (app \in DecodeApps /\ cpc = "done")
       => /\ app = "dec_init" => (decoded = "resp" <=> SameId(rx_frame, rx_resp_msg))
          /\ app = "dec_resp" =>
                /\ decoded = "poll" <=> SameId(rx_frame, rx_poll_msg)
                /\ decoded = "final" <=> SameId(rx_frame, rx_final_msg)
          /\ decoded \in {"poll", "resp", "final", "mismatch"}

C13_Witness ==
    /\ app = "dec_resp"
    /\ cpc = "done"
    /\ decoded = "final"
    /\ rx_frame[ALL_MSG_SN_IDX + 1] = 7

\* C15: the three timestamp fields of the received final, at indexes 10,
\* 14 and 18, and the values the responder extracts from them, are the low
\* 32 bits of the initiator's poll-TX, response-RX and predicted final-TX
\* timestamps.
C15_TimestampRoundTrip ==
    app = "twr" =>
       /\ cpc \in {"final_rx", "done"} =>
             /\ final_msg_get_ts(TsField(rx_ts_fields, FINAL_MSG_POLL_TX_TS_IDX))
                   = Low32(ini.poll_tx_ts)
             /\ final_msg_get_ts(TsField(rx_ts_fields, FINAL_MSG_RESP_RX_TS_IDX))
                   = Low32(ini.resp_rx_ts)
             /\ final_msg_get_ts(TsField(rx_ts_fields, FINAL_MSG_FINAL_TX_TS_IDX))
                   = Low32(ini.final_tx_ts)
       /\ cpc = "done" =>
             /\ rsp.poll_tx_ts = Low32(ini.poll_tx_ts)
             /\ rsp.resp_rx_ts = Low32(ini.resp_rx_ts)
             /\ rsp.final_tx_ts = Low32(ini.final_tx_ts)

C15_Witness ==
    /\ app = "twr"
    /\ cpc = "done"
    /\ ini.poll_tx_ts.top = 255
    /\ ini.final_tx_ts.top = 256
    /\ rsp.poll_tx_ts.hi = 65535
    /\ rsp.final_tx_ts.hi = 0
    /\ rsp.final_tx_ts.lo > 255

\* C16: the time programmed for a delayed transmission denotes the RX
\* timestamp plus the turnaround delay, modulo 2^40, rounded down to a
\* multiple of 512, and the predicted TX timestamp (resp_tx_ts of the
\* responder, final_tx_ts of the initiator and the field of the final) is
\* that value plus TX_ANT_DLY.
Round512(x) == U64(x.top, x.hi, x.lo - (x.lo % 512))
Programmed(d) == Shl8(ClearBit0(dx_time[d]))
C16_DelayedTxRounding ==
    app = "twr" =>
       /\ cpc \in {"resp_rx", "final_rx"} =>
             LET due == Round512(Add40(rsp.poll_rx_ts, dly.resp))
             IN  /\ Programmed("R") = due
                 /\ rsp.resp_tx_ts = Add64(due, TX_ANT_DLY)
       /\ cpc \in {"final_rx", "done"} =>
             LET due == Round512(Add40(ini.resp_rx_ts, dly.final))
             IN  /\ Programmed("I") = due
                 /\ ini.final_tx_ts = Add64(due, TX_ANT_DLY)
                 /\ final_msg_get_ts(TsField(tx_ts_fields, FINAL_MSG_FINAL_TX_TS_IDX))
                       = Low32(Add64(due, TX_ANT_DLY))

C16_Witness ==
    /\ app = "twr"
    /\ cpc = "final_rx"
    /\ rsp.poll_rx_ts.top = 255
    /\ Programmed("R").top = 0
    /\ Add40(rsp.poll_rx_ts, dly.resp).lo % 512 >= 256
    /\ Add40(ini.resp_rx_ts, dly.final).lo % 512 >= 256

\* C17: when the true separations of the captures are below 2^32, the
\* deltas Ra, Rb, Da, Db the responder computes by 32-bit subtraction equal
\* the true separations, also when a device counter passed 2^32 or 2^40
\* between two captures.
C17_WrapSafeDeltas ==
    (app \in TwrApps /\ cpc = "done")
       => /\ rsp.Ra = sep.Ra
          /\ rsp.Rb = sep.Rb
          /\ rsp.Da = sep.Da
          /\ rsp.Db = sep.Db

C17_Witness ==
    /\ app = "twr"
    /\ cpc = "done"
    /\ rsp.poll_rx_ts.top = 255 /\ rsp.resp_tx_ts.top = 255 /\ rsp.final_rx_ts.top = 0
    /\ ini.poll_tx_ts.top = 0 /\ ini.poll_tx_ts.hi = 65535 /\ ini.resp_rx_ts.top = 1
    /\ rsp.Rb = sep.Rb /\ rsp.Rb > TX_ANT_DLY


\* C18: the time of flight is (Ra*Rb - Da*Db) / (Ra+Rb+Da+Db) with the
\* fraction dropped (rounded toward zero), a function of the four deltas
\* only; for Ra = Rb and Da = Db it is (Ra - Da) / 2 rounded toward zero.
Abs(x) == IF x < 0 THEN -x ELSE x
IsQuotTowardZero(q, n, d) ==
    /\ Abs(q) * d <= Abs(n)
    /\ Abs(n) < (Abs(q) + 1) * d
    /\ q * n >= 0
C18_DsTwrEstimator ==
    (app \in TwrApps /\ cpc = "done" /\ rsp.Ra + rsp.Rb + rsp.Da + rsp.Db > 0)
       => /\ IsQuotTowardZero(rsp.tof_dtu, rsp.Ra * rsp.Rb - rsp.Da * rsp.Db,
                              rsp.Ra + rsp.Rb + rsp.Da + rsp.Db)
          /\ (rsp.Ra = rsp.Rb /\ rsp.Da = rsp.Db)
                => IsQuotTowardZero(rsp.tof_dtu, rsp.Ra - rsp.Da, 2)

C18_Witness ==
    /\ app = "twr_env"
    /\ cpc = "done"
    /\ rsp.Ra = rsp.Rb /\ rsp.Da = rsp.Db
    /\ rsp.Ra < rsp.Da
    /\ (rsp.Da - rsp.Ra) % 2 = 1
    /\ rsp.tof_dtu < 0

C20_DegenerateTiming ==
    (app \in TwrApps /\ cpc = "done" /\ rsp.Ra + rsp.Rb + rsp.Da + rsp.Db = 0)
       => distance_array_index = 0

(* ---------------------------------------------------------------------- *)
\* the step in which rx_aes_802_15_8 is called and returns
AesCallStep ==
    \/ app = "aes_fn" /\ apc["R"] = "call" /\ apc'["R"] = "returned"
    \/ /\ app = "aes" /\ apc["R"] = "rx_wait" /\ apc'["R"] # "rx_wait"
       /\ RXFCG \subseteq aes_hw["R"].status
\* a call of rx_aes_802_15_8 has returned and nothing was received since
AesReturned == aes_results # "none" /\ apc["R"] \in {"returned", "loop", "exit"}
\* frame_length - sizeof(header) - mic_size - FCS_LEN as a number
AesMathLen(args, job) == args.frame_length - HEADER_LEN - job.mic_size - FCS_LEN

\* C21: whenever the payload length rx_aes_802_15_8 computes is negative or
\* not smaller than payload_load_size, the call returns an error, makes no
\* driver call (neither dwt_readrxdata nor dwt_do_aes) and leaves aes_job
\* and the payload buffer as they were.
C21_LengthCheckFirst ==
    [][AesCallStep =>
         LET L == AesMathLen(aes_args', aes_job)
             c == ToInt16(L)
             size == aes_args'.payload_load_size
         IN  (c < 0 \/ c >= size \/ L < 0 \/ L >= size)
                => /\ aes_results' \notin {"AES_RES_OK", "none"}
                   /\ aes_trace' = << >>
                   /\ aes_job' = aes_job
                   /\ payload' = payload]_vars

C21_Witness ==
    /\ app = "aes_fn" /\ apc["R"] = "returned"
    /\ AesMathLen(aes_args, aes_job) < 0
    /\ aes_results = "AES_RES_ERROR_FRAME"
    /\ aes_trace = << >>

\* C22: a payload length outside 0 <= payload_len < payload_load_size is
\* returned by rx_aes_802_15_8 as AES_RES_ERROR_LENGTH and logged by
\* simple_rx_aes as a length error, like a negative status of the AES core.
C22_LengthErrorKind ==
    (AesReturned /\ aes_trace = << >>)
       => /\ aes_results = "AES_RES_ERROR_LENGTH"
          /\ RxLog(aes_results) = "Length AES error"

C24_SameClassification ==
    /\ app \in AesApps => \A s \in -128..127 : TxLog(s) = RxLog(RxClassify(s))
    /\ (tx_outcome # "none" /\ AesReturned /\ aes_trace # << >>
          /\ tx_status = aes_status) => tx_outcome = RxLog(aes_results)

C24_Witness ==
    /\ app = "aes"
    /\ tx_outcome = "ERROR AES" /\ apc["I"] = "exit"
    /\ AesReturned /\ aes_results = "AES_RES_ERROR" /\ aes_status = tx_status

\* C25: the nonce of the transmitter is the packet number, 6 bytes least
\* significant first, followed by the source address, and the nonce
\* rx_aes_802_15_8 builds from the received header is the nonce the sender
\* of that frame used.
C25_NonceAgreement ==
    /\ (app = "aes" /\ apc["I"] = "txwait") =>
          /\ Len(nonce) = 12
          /\ \A i \in 1..12 : nonce[i] \in 0..255
          /\ nonce[1] + 256 * nonce[2] = PN.lo
          /\ nonce[3] + 256 * nonce[4] = PN.hi
          /\ nonce[5] + 256 * nonce[6] = PN.top
          /\ SubSeq(nonce, 7, 12) = header.src_addr
          /\ aes_hw["I"].txq # NoAesFrame => aes_hw["I"].txq.sent_nonce = nonce
    /\ (AesReturned /\ aes_trace # << >>) =>
          aes_job.nonce = aes_hw["R"].rx.sent_nonce

C25_Witness ==
    /\ app = "aes" /\ AesReturned /\ aes_trace # << >>
    /\ aes_hw["R"].rx.hdr.src_addr = TX_SRC_ADDR
    /\ aes_job.nonce = PnBytes(U64(65535, 65535, 65534)) \o TX_SRC_ADDR
    /\ PN = U64(0, 0, 0)

\* C26: an AES length error or crypto error does not end simple_tx_aes or
\* simple_rx_aes: neither example leaves its loop.
C26_AesErrorsNotFatal ==
    \A d \in Dev : app = "aes" => apc[d] # "exit"

\* C28: ack_data_tx increases the sequence number of its frame (modulo 256)
\* exactly in an iteration that received a good frame of 5 bytes with
\* frame control 0x02 0x00 and the sequence number just transmitted; the
\* next transmission carries the sequence number the iteration ended with.
C28_AckRetry ==
    [][/\ (app = "ack_tx" /\ ack_pc = "rx_wait" /\ ack_pc' = "loop") =>
            LET f == ack_hw.rx
                valid == /\ RXFCG \subseteq ack_hw.status
                         /\ f.len = 5
                         /\ f.bytes[1] = 2 /\ f.bytes[2] = 0
                         /\ f.bytes[3] = tx_msg_sn
            IN  tx_msg_sn' = IF valid THEN (tx_msg_sn + 1) % 256 ELSE tx_msg_sn
       /\ (app = "ack_tx" /\ ack_pc = "loop" /\ ack_pc' = "rx_wait") =>
            ack_hw'.txq = <<tx_msg_sn>>
       /\ (app = "ack_tx" /\ ack_pc' = ack_pc) => tx_msg_sn' = tx_msg_sn]_vars

C28_Witness ==
    /\ app = "ack_tx" /\ ack_pc = "rx_wait"
    /\ ack_hw.txq = <<0>>
    /\ ack_rx_buffer = <<2, 0, 255, 0, 0>>


(* ----------------------------- C27 ------------------------------------ *)
ErrorCountProgs == {"ds_twr_initiator_sts", "ds_twr_responder_sts",
                    "ss_twr_initiator_sts_no_data"}
RxWaits == {"rx_wait", "resp_wait", "report_wait"}
C27_Step(d) ==
    /\ Prog(d) \in ErrorCountProgs
    /\ pc[d] \in RxWaits
    /\ pc'[d] # pc[d]
    /\ outcome'[d] \in {"bad_frame", "bad_sts", "rx_fail"}

RespWaitsFinal ==
    \/ /\ Prog("R") = "ds_twr_sts_sdc_responder"
       /\ pc["R"] = "final_wait"
    \/ /\ Prog("R") = "ds_twr_responder_sts"
       /\ pc["R"] = "rx_wait"
       /\ messageFlag = 1

\* C30: whenever ds_twr_responder_sts or ds_twr_sts_sdc_responder waits for
\* a final, a non-zero RX frame timeout is programmed in the transceiver
C30_FinalWaitTimeoutArmed == RespWaitsFinal => rx_to["R"] # 0


(* ----------------------------- C29 ------------------------------------ *)
RangingInitiators == {"ds_twr_initiator", "ds_twr_initiator_sts",
                      "ds_twr_sts_sdc_initiator", "ss_twr_initiator_sts_no_data"}

\* the poll of the current iteration has left the transmitter and nothing
\* else has happened in the iteration yet
PollTransmitted == iter_ev["I"] = {"poll"} /\ txq["I"] = NoFrame

DsStsProgs == {"ds_twr_initiator_sts", "ds_twr_responder_sts"}

\* C31: in ds_twr_initiator_sts and ds_twr_responder_sts,
\* errors[BAD_FRAME_ERR_IDX] grows only when a frame with good CRC and good
\* STS fails the prefix comparison, and errors[RTO_ERR_IDX] grows only when
\* the RX timeout fired and no frame arrived
C31_OwnCounter ==
    [][\A d \in Dev :
          Prog(d) \in DsStsProgs =>
            /\ errors'[d]["BAD_FRAME_ERR_IDX"] > errors[d]["BAD_FRAME_ERR_IDX"]
                  => outcome'[d] = "bad_frame"
            /\ errors'[d]["RTO_ERR_IDX"] > errors[d]["RTO_ERR_IDX"]
                  => /\ ALL_RX_TO \subseteq status_reg'[d]
                     /\ ~(RXFCG \subseteq status_reg'[d])]_vars


(* ----------------------------- C32 ------------------------------------ *)
RespSts == Prog("R") = "ds_twr_responder_sts"
RespStsInWait == pc["R"] \in {"rx_wait", "resp_txwait"}

\* C32: in ds_twr_responder_sts loopCount grows only at the top of an
\* iteration that starts an exchange (messageFlag = 0), app_main returns
\* only with loopCount = RANGE_COUNT, and, when every status wait returns,
\* app_main does return
C32_BoundedLoop ==
    /\ [][(RespSts /\ loopCount' # loopCount)
            => /\ messageFlag = 0
               /\ loopCount' = loopCount + 1
               /\ rx_on'["R"]]_vars
    /\ []((RespSts /\ pc["R"] = "done") => loopCount = RANGE_COUNT)
    /\ ([]<>~RespStsInWait) => []<>(RespSts => pc["R"] = "done")


(* ----------------------------- C33 ------------------------------------ *)
SsInit == Prog("I") = "ss_twr_initiator_sts_no_data"
Added(ev) == ev \in iter_ev'["I"] /\ ev \notin iter_ev["I"]

\* C33: ss_twr_initiator_sts_no_data computes a distance only in an
\* iteration in which the poll packet was sent, then an SP3 packet was
\* received (RXFR) with an STS score of 0 or more, then a report frame was
\* received with good CRC, a length in 1..RX_BUF_LEN and the report prefix
C33_SsPhaseOrder ==
    [][SsInit =>
         /\ Added("sp3_ok")
               => /\ "poll" \in iter_ev["I"] /\ "dist" \notin iter_ev["I"]
                  /\ txq["I"] = NoFrame
                  /\ RXFR \subseteq SYS_STATUS["I"]
                  /\ sts_qual["I"] >= 0
         /\ Added("dist")
               => /\ {"poll", "sp3_ok"} \subseteq iter_ev["I"]
                  /\ RXFCG \subseteq SYS_STATUS["I"]
                  /\ hw_rx["I"].len \in 1..RX_BUF_LEN_SS
                  /\ hw_rx["I"].kind = "report"
                  /\ rx_buffer'["I"] = "report"]_vars

\* a distance has been computed in an iteration that went through the
\* three phases
C33_Witness ==
    /\ SsInit
    /\ iter_ev["I"] = {"poll", "sp3_ok", "dist"}
    /\ outcome["I"] = "report_ok"


(* ----------------------------- C34 ------------------------------------ *)
NoStsFrameProgs == {"ds_twr_initiator", "ds_twr_sts_sdc_initiator",
                    "ds_twr_sts_sdc_responder"}
RxBufLenOf(d) ==
    CASE Prog(d) = "ds_twr_initiator" -> RX_BUF_LEN_INIT
      [] Prog(d) = "ds_twr_sts_sdc_initiator" -> RX_BUF_LEN_SDC_INIT
      [] OTHER -> RX_BUF_LEN_SDC_RESP
\* the frame whose reception lets the program make this step
KindFor(ev) == CASE ev = "final" -> "resp" [] ev = "resp" -> "poll" [] OTHER -> "final"
Starts(d, ev) == ev \in iter_ev'[d] /\ ev \notin iter_ev[d]

\* C34: ds_twr_initiator, ds_twr_sts_sdc_initiator and
\* ds_twr_sts_sdc_responder send a reply or compute a distance only when the
\* frame received in the current wait fits the buffer and is of the
\* expected kind
C34_NoStaleData ==
    [][\A d \in Dev : \A ev \in {"final", "resp", "dist"} :
          (Prog(d) \in NoStsFrameProgs /\ Starts(d, ev))
             => /\ hw_rx[d].len <= RxBufLenOf(d)
                /\ hw_rx[d].kind = KindFor(ev)]_vars


(* ----------------------------- C35 ------------------------------------ *)
TerminalRxEvents == RXFCG \cup ALL_RX_TO \cup ALL_RX_ERR

\* C35: in ds_twr_responder_sts every status bit among RXFCG, ALL_RX_TO and
\* ALL_RX_ERR that ended a status wait has been cleared when the code that
\* follows the wait is through, so it cannot end the next wait
C35_RxEventsConsumed ==
    [][(RespSts /\ pc["R"] = "rx_wait" /\ pc'["R"] # "rx_wait")
          => SYS_STATUS'["R"] \cap (status_reg'["R"] \cap TerminalRxEvents) = {}]_vars


(* ----------------------------- C36 ------------------------------------ *)
\* C36: in ds_twr_responder_sts every write of
\* distance_array[distance_array_index] is made with an index in
\* 0..RANGE_COUNT-1, whatever frames are received
C36_DistanceLogInBounds ==
    [][(RespSts /\ distance_array_index' # distance_array_index)
          => /\ 0 <= distance_array_index
             /\ distance_array_index < RANGE_COUNT
             /\ distance_array_index' = distance_array_index + 1]_vars

\* the last slot has been written, by finals that came without a poll
C36_Witness ==
    /\ app = "resp_sts"
    /\ distance_array_index = RANGE_COUNT
    /\ outcome["R"] = "final_ok"
    /\ sts_key_loads["R"] >= 1
    /\ pc["R"] = "loop"


(* ----------------------------- C37 ------------------------------------ *)
\* C37: app_main of ds_twr_responder_sts returns only when no exchange is
\* in progress, that is with messageFlag = 0
C37_NoReturnMidExchange ==
    (RespSts /\ pc["R"] = "done") => messageFlag = 0


(* ----------------------------- C38 ------------------------------------ *)
\* C38: in tx_timed_sleep, whatever the interleaving of spi_ready_cb with
\* app_main, after each dwt_entersleep the main loop leaves while (sleeping)
\* once the chip has woken up: the loop keeps coming back to its top
C38_NoLostWakeup == []<>(app = "sleep" => sl_pc = "loop")


(* ----------------------------- C39 ------------------------------------ *)
\* C39: in ack_data_tx, at the end of every iteration of the loop (that is,
\* whenever app_main is at the top of the loop) the number of frames sent is
\* the number of frames acknowledged plus the number of retransmissions,
\* in 32-bit arithmetic; tx_frame_acked is 0 there.
C39_AckBookkeeping ==
    (app = "ack_tx" /\ ack_pc = "loop") =>
        /\ tx_frame_nb = Add32(tx_frame_ack_nb, tx_frame_retry_nb)
        /\ tx_frame_acked = 0

\* an iteration has just passed 2^32: the sum of the two counters wrapped
\* with the counter of frames sent, after acknowledged and failed iterations
C39_Witness ==
    /\ app = "ack_tx" /\ ack_pc = "loop"
    /\ tx_frame_nb = U32(0, 1)
    /\ tx_frame_ack_nb = U32(65535, 65535)
    /\ tx_frame_retry_nb = U32(0, 2)

====
